---- MODULE Spec2Model ----
(***************************************************************************)
(* Stack<T> and Queue<T> of fwd_container: singly linked chains of Node<T> *)
(* on a finite heap.  A program owns the container objects of Objs; each   *)
(* is not constructed, a Stack or a Queue.                                 *)
(***************************************************************************)
EXTENDS Integers, Sequences, FiniteSets, TLC

\* ---------------------------------------------------------------- bounds
MaxNodes == 4
MaxCursors == 3

Addrs == 1..MaxNodes
\* the addresses of the cursor objects
CAddrs == 1..MaxCursors
Null == 0
Values == {10, 20, 30}
NoVal == -1
\* a token of the input text that does not parse as T
BadToken == -2
Objs == {"a", "b"}
\* "backup" is the local object of read(); it lives only inside that call
AllObjs == Objs \cup {"backup"}
\* the iterator / const_iterator objects of the program; "temp" is the
\* local object of operator++(int) and the temporary that a function returns
Its == {"it", "jt"}
AllIts == Its \cup {"temp"}

\* ---------------------------------------------------------------- state
VARIABLES
  live,       \* addresses of the Node<T> objects allocated and not deleted
  data,       \* Node<T>::data
  next,       \* Node<T>::next
  kind,       \* dynamic type of each object: "none", "Stack" or "Queue"
  topNode,    \* Stack<T>::topNode
  stackSize,  \* Stack<T>::stackSize
  frontNode,  \* Queue<T>::frontNode
  rearNode,   \* Queue<T>::rearNode
  queueSize,  \* Queue<T>::queueSize
  log,        \* history: per object, the pushed and not yet popped elements,
              \* oldest first, each with the node that holds it
  cursors,    \* the cursor object at each cursor address (class and current)
  handles,    \* per iterator / const_iterator object: its class and its ptr
  last        \* the last call: operation, object, arguments, outcome

vars == <<live, data, next, kind, topNode, stackSize, frontNode, rearNode,
          queueSize, log, cursors, handles, last>>

\* std::istream: the state bits, the tokens not yet extracted and what
\* follows the last token: "" (end of input), " " (white space) or "-" (the
\* start of a number that the end of input cuts short)
NoStream == [state |-> {}, buf |-> <<>>, tail |-> ""]

\* std::ostream: the state bits, the text written so far (element values and
\* Sp for each " ") and room, the number of insertions the destination still
\* takes before it becomes unwritable
NoOut == [state |-> {}, text |-> <<>>, room |-> 0]

\* " " in a text
Sp == -3

\* The memory a call works on, with the call's transient outcome:
\* budget = allocations that still succeed, exc/what = the exception in
\* flight, ret = the value returned, is = the stream the call reads.
Mem(budget) ==
  [live |-> live, data |-> data, next |-> next, kind |-> kind,
   topNode |-> topNode, stackSize |-> stackSize, frontNode |-> frontNode,
   rearNode |-> rearNode, queueSize |-> queueSize, log |-> log,
   cursors |-> cursors, handles |-> handles,
   budget |-> budget, exc |-> "none", what |-> <<>>,
   ret |-> Null, is |-> NoStream, os |-> NoOut]

Free(m) == Addrs \ m.live

\* throw E(what)
Throw(m, exc, what) == [m EXCEPT !.exc = exc, !.what = what]

\* catch (...) { throw std::runtime_error(prefix + e.what()); }
Rethrow(m, prefix) ==
  [m EXCEPT !.exc = "runtime_error", !.what = <<prefix>> \o @]

\* ---------------------------------------------------------------- Node
\* new Node<T>(value, next_node): std::bad_alloc when the heap gives nothing
NewNode(m, value, next_node) ==
  IF m.budget = 0 \/ Free(m) = {}
    THEN Throw(m, "bad_alloc", <<"std::bad_alloc">>)
    ELSE LET a == CHOOSE x \in Free(m) : \A y \in Free(m) : x <= y
         IN [m EXCEPT !.live = @ \cup {a}, !.data[a] = value,
                      !.next[a] = next_node, !.budget = @ - 1, !.ret = a]

\* delete node
DeleteNode(m, a) ==
  [m EXCEPT !.live = @ \ {a}, !.data[a] = NoVal, !.next[a] = Null]

\* the nodes reached from head by next links, head first (at most n of them)
RECURSIVE Chain(_, _, _)
Chain(m, head, n) ==
  IF head = Null \/ n = 0 THEN <<>>
  ELSE <<head>> \o Chain(m, m.next[head], n - 1)

\* the history without the element that node a held
RemoveNode(s, a) == SelectSeq(s, LAMBDA e : e.node # a)

\* ---------------------------------------------------------------- Stack
Stack_is_empty(m, c) == m.topNode[c] = Null

Stack_size(m, c) == m.stackSize[c]

\* variant: push that forgets ++stackSize
Stack_push_NoCount(m, c, value) ==
  LET n == NewNode(m, value, m.topNode[c]) IN
  IF n.exc = "bad_alloc"
    THEN Rethrow(n, "Failed to allocate memory for new stack element: ")
    ELSE [n EXCEPT !.topNode[c] = n.ret,
                   !.log[c] = Append(@, [node |-> n.ret, val |-> value]),
                   !.ret = Null]

\* variant: push that counts the element before its node is allocated
Stack_push_CountFirst(m, c, value) ==
  LET n == NewNode([m EXCEPT !.stackSize[c] = @ + 1], value, m.topNode[c]) IN
  IF n.exc = "bad_alloc"
    THEN Rethrow(n, "Failed to allocate memory for new stack element: ")
    ELSE [n EXCEPT !.topNode[c] = n.ret,
                   !.log[c] = Append(@, [node |-> n.ret, val |-> value]),
                   !.ret = Null]

Stack_push(m, c, value) ==
  LET n == NewNode(m, value, m.topNode[c]) IN
  IF n.exc = "bad_alloc"
    THEN Rethrow(n, "Failed to allocate memory for new stack element: ")
    ELSE [n EXCEPT !.topNode[c] = n.ret, !.stackSize[c] = @ + 1,
                   !.log[c] = Append(@, [node |-> n.ret, val |-> value]),
                   !.ret = Null]

\* variant: pop that reads the value after topNode = topNode->next, from
\* the new top when there is one
Stack_pop_ValueOfNext(m, c) ==
  IF m.topNode[c] = Null
    THEN Throw(m, "runtime_error", <<"Cannot pop: Stack is empty">>)
    ELSE LET temp == m.topNode[c]
             from == IF m.next[temp] = Null THEN temp ELSE m.next[temp]
             d == DeleteNode(m, temp)
         IN [d EXCEPT !.topNode[c] = m.next[temp], !.stackSize[c] = @ - 1,
                      !.log[c] = RemoveNode(@, temp),
                      !.ret = m.data[from]]

Stack_pop(m, c) ==
  IF Stack_is_empty(m, c)
    THEN Throw(m, "runtime_error", <<"Cannot pop: Stack is empty">>)
    ELSE LET temp == m.topNode[c]
             value == m.data[temp]
             d == DeleteNode(m, temp)
         IN [d EXCEPT !.topNode[c] = m.next[temp], !.stackSize[c] = @ - 1,
                      !.log[c] = RemoveNode(@, temp),
                      !.ret = value]

\* variant: get_front that reads the node under the top when there is one
Stack_get_front_Second(m, c) ==
  IF m.topNode[c] = Null
    THEN Throw(m, "runtime_error", <<"Cannot get top data: Stack is empty">>)
    ELSE LET t == m.topNode[c] IN
         [m EXCEPT !.ret = IF m.next[t] = Null THEN m.data[t]
                           ELSE m.data[m.next[t]]]

Stack_get_front(m, c) ==
  IF Stack_is_empty(m, c)
    THEN Throw(m, "runtime_error", <<"Cannot get top data: Stack is empty">>)
    ELSE [m EXCEPT !.ret = m.data[m.topNode[c]]]

\* top()
Stack_top(m, c) == Stack_get_front(m, c)

\* while (!is_empty()) pop();
RECURSIVE Stack_clear_loop(_, _, _)
Stack_clear_loop(m, c, n) ==
  IF Stack_is_empty(m, c) \/ n = 0 THEN m
  ELSE Stack_clear_loop(Stack_pop(m, c), c, n - 1)

\* variant: clear() that stops at the last node
Stack_clear_KeepLast(m, c) ==
  IF Stack_is_empty(m, c) THEN m
  ELSE Stack_clear_loop(m, c, m.stackSize[c] - 1)

Stack_clear(m, c) == Stack_clear_loop(m, c, MaxNodes)

\* the element history of a copy: the source's, on the copy's nodes
CopyLog(m, other, newHead) ==
  LET old == Chain(m, m.topNode[other], MaxNodes)
      new == Chain(m, newHead, MaxNodes)
      Pos(a) == CHOOSE i \in 1..Len(old) : old[i] = a
  IN [i \in 1..Len(m.log[other]) |->
        [node |-> new[Pos(m.log[other][i].node)], val |-> m.log[other][i].val]]

\* while (current != nullptr) { newNode = new Node<T>(current->data); ... }
RECURSIVE Stack_copy_loop(_, _, _)
Stack_copy_loop(m, current, prevNewNode) ==
  IF current = Null THEN m
  ELSE LET n == NewNode(m, m.data[current], Null) IN
       IF n.exc # "none" THEN n
       ELSE Stack_copy_loop([n EXCEPT !.next[prevNewNode] = n.ret],
                            m.next[current], n.ret)

\* variant: handler that rethrows without deleting the nodes built so far
Stack_copy_cleanup_Leak(m, newTopNode) == m

\* catch (const std::bad_alloc&) { while (newTopNode != nullptr) delete ... }
RECURSIVE Stack_copy_cleanup(_, _)
Stack_copy_cleanup(m, newTopNode) ==
  IF newTopNode = Null THEN m
  ELSE Stack_copy_cleanup(DeleteNode(m, newTopNode), m.next[newTopNode])

\* the body shared by the copy constructor and copy assignment: builds the
\* new chain, and links it to *this only when every allocation succeeded
Stack_copy_chain(m, c, other, prefix) ==
  LET first == NewNode(m, m.data[m.topNode[other]], Null) IN
  IF first.exc # "none"
    THEN Rethrow(Stack_copy_cleanup([first EXCEPT !.exc = "none"], Null), prefix)
    ELSE LET newTopNode == first.ret
             built == Stack_copy_loop(first, m.next[m.topNode[other]], newTopNode)
         IN IF built.exc # "none"
              THEN Rethrow(Stack_copy_cleanup(built, newTopNode), prefix)
              ELSE [built EXCEPT !.topNode[c] = newTopNode,
                                 !.stackSize[c] = m.stackSize[other],
                                 !.log[c] = CopyLog(built, other, newTopNode),
                                 !.ret = Null]

\* variant: copy constructor that takes over the source's chain
Stack_copy_ctor_Shallow(m, c, other) ==
  [m EXCEPT !.kind[c] = "Stack", !.topNode[c] = m.topNode[other],
            !.stackSize[c] = m.stackSize[other], !.log[c] = m.log[other]]

\* Stack(const Stack<T>& other)
Stack_copy_ctor(m, c, other) ==
  LET i == [m EXCEPT !.kind[c] = "Stack", !.topNode[c] = Null,
                     !.stackSize[c] = m.stackSize[other], !.log[c] = <<>>] IN
  IF Stack_is_empty(i, other) THEN i
  ELSE Stack_copy_chain(i, c, other,
         "Memory allocation failed during copy construction: ")

\* variant: move constructor that leaves other.stackSize as it was
Stack_move_ctor_KeepSize(m, c, other) ==
  [m EXCEPT !.kind[c] = "Stack",
            !.topNode = [@ EXCEPT ![c] = m.topNode[other], ![other] = Null],
            !.stackSize[c] = m.stackSize[other],
            !.log = [@ EXCEPT ![c] = m.log[other], ![other] = <<>>]]

\* Stack(Stack<T>&& other)
Stack_move_ctor(m, c, other) ==
  [m EXCEPT !.kind[c] = "Stack",
            !.topNode = [@ EXCEPT ![c] = m.topNode[other], ![other] = Null],
            !.stackSize = [@ EXCEPT ![c] = m.stackSize[other], ![other] = 0],
            !.log = [@ EXCEPT ![c] = m.log[other], ![other] = <<>>]]

\* operator=(const Stack<T>& other)
Stack_copy_assign(m, c, other) ==
  IF c = other THEN m
  ELSE LET cl == [Stack_clear(m, c) EXCEPT !.stackSize[c] = 0, !.ret = Null] IN
       IF Stack_is_empty(cl, other) THEN cl
       ELSE Stack_copy_chain(cl, c, other,
              "Memory allocation failed during copy assignment: ")

\* variant: move assignment without the test this != &other
Stack_move_assign_NoSelfTest(m, c, other) ==
  LET cl == [Stack_clear(m, c) EXCEPT !.ret = Null] IN
  [cl EXCEPT
     !.topNode = [[@ EXCEPT ![c] = cl.topNode[other]] EXCEPT ![other] = Null],
     !.stackSize = [[@ EXCEPT ![c] = cl.stackSize[other]] EXCEPT ![other] = 0],
     !.log = [[@ EXCEPT ![c] = cl.log[other]] EXCEPT ![other] = <<>>]]

\* operator=(Stack<T>&& other)
Stack_move_assign(m, c, other) ==
  IF c = other THEN m
  ELSE LET cl == [Stack_clear(m, c) EXCEPT !.ret = Null] IN
       [cl EXCEPT
          !.topNode = [@ EXCEPT ![c] = cl.topNode[other], ![other] = Null],
          !.stackSize = [@ EXCEPT ![c] = cl.stackSize[other], ![other] = 0],
          !.log = [@ EXCEPT ![c] = cl.log[other], ![other] = <<>>]]

\* variant: assignment that takes other for a Stack without the cast test
Stack_assign_NoCast(m, c, other) == Stack_copy_assign(m, c, other)

\* operator=(const fwd_container<T>& other)
Stack_assign(m, c, other) ==
  IF m.kind[other] # "Stack"
    THEN Throw(m, "bad_cast", <<"std::bad_cast">>)
    ELSE Stack_copy_assign(m, c, other)

\* ~Stack()
Stack_dtor(m, c) ==
  [Stack_clear(m, c) EXCEPT !.kind[c] = "none", !.stackSize[c] = 0,
                            !.log[c] = <<>>, !.ret = Null]

\* ---------------------------------------------------------------- Queue
Queue_is_empty(m, c) == m.frontNode[c] = Null

Queue_size(m, c) == m.queueSize[c]

\* variant: push that links the new node in front of frontNode
Queue_push_AtFront(m, c, value) ==
  LET n == NewNode(m, value, m.frontNode[c]) IN
  IF n.exc = "bad_alloc"
    THEN Rethrow(n, "Failed to allocate memory for new queue element: ")
    ELSE [n EXCEPT !.frontNode[c] = n.ret,
                   !.rearNode[c] = IF m.frontNode[c] = Null THEN n.ret ELSE @,
                   !.queueSize[c] = @ + 1,
                   !.log[c] = Append(@, [node |-> n.ret, val |-> value]),
                   !.ret = Null]

\* variant: push that forgets rearNode->next = newNode
Queue_push_Unlinked(m, c, value) ==
  LET n == NewNode(m, value, Null) IN
  IF n.exc = "bad_alloc"
    THEN Rethrow(n, "Failed to allocate memory for new queue element: ")
    ELSE [n EXCEPT !.frontNode[c] = IF @ = Null THEN n.ret ELSE @,
                   !.rearNode[c] = n.ret,
                   !.queueSize[c] = @ + 1,
                   !.log[c] = Append(@, [node |-> n.ret, val |-> value]),
                   !.ret = Null]

Queue_push(m, c, value) ==
  LET n == NewNode(m, value, Null) IN
  IF n.exc = "bad_alloc"
    THEN Rethrow(n, "Failed to allocate memory for new queue element: ")
    ELSE LET newNode == n.ret
             linked == IF Queue_is_empty(n, c)
                         THEN [n EXCEPT !.frontNode[c] = newNode,
                                        !.rearNode[c] = newNode]
                         ELSE [n EXCEPT !.next[n.rearNode[c]] = newNode,
                                        !.rearNode[c] = newNode]
         IN [linked EXCEPT !.queueSize[c] = @ + 1,
                           !.log[c] = Append(@, [node |-> newNode, val |-> value]),
                           !.ret = Null]

\* variant: pop without the is_empty() test, returning a default T
Queue_pop_NoThrow(m, c) ==
  IF m.frontNode[c] = Null THEN [m EXCEPT !.ret = NoVal]
  ELSE LET temp == m.frontNode[c]
           newFront == m.next[temp]
           d == DeleteNode(m, temp)
       IN [d EXCEPT !.frontNode[c] = newFront,
                    !.rearNode[c] = IF newFront = Null THEN Null ELSE @,
                    !.queueSize[c] = @ - 1,
                    !.log[c] = RemoveNode(@, temp),
                    !.ret = m.data[temp]]

\* variant: pop that leaves rearNode alone when the queue becomes empty
Queue_pop_KeepRear(m, c) ==
  IF m.frontNode[c] = Null
    THEN Throw(m, "runtime_error", <<"Cannot pop: Queue is empty">>)
    ELSE LET temp == m.frontNode[c]
             d == DeleteNode(m, temp)
         IN [d EXCEPT !.frontNode[c] = m.next[temp],
                      !.queueSize[c] = @ - 1,
                      !.log[c] = RemoveNode(@, temp),
                      !.ret = m.data[temp]]

Queue_pop(m, c) ==
  IF Queue_is_empty(m, c)
    THEN Throw(m, "runtime_error", <<"Cannot pop: Queue is empty">>)
    ELSE LET temp == m.frontNode[c]
             value == m.data[temp]
             newFront == m.next[temp]
             d == DeleteNode(m, temp)
         IN [d EXCEPT !.frontNode[c] = newFront,
                      !.rearNode[c] = IF newFront = Null THEN Null ELSE @,
                      !.queueSize[c] = @ - 1,
                      !.log[c] = RemoveNode(@, temp),
                      !.ret = value]

Queue_get_front(m, c) ==
  IF Queue_is_empty(m, c)
    THEN Throw(m, "runtime_error", <<"Cannot get front data: Queue is empty">>)
    ELSE [m EXCEPT !.ret = m.data[m.frontNode[c]]]

\* front()
Queue_front(m, c) == Queue_get_front(m, c)

\* while (!is_empty()) pop();
RECURSIVE Queue_clear_loop(_, _, _)
Queue_clear_loop(m, c, n) ==
  IF Queue_is_empty(m, c) \/ n = 0 THEN m
  ELSE Queue_clear_loop(Queue_pop(m, c), c, n - 1)

Queue_clear(m, c) == Queue_clear_loop(m, c, MaxNodes)

\* while (current != nullptr) { push(current->data); current = current->next; }
\* push turns std::bad_alloc into std::runtime_error, which leaves the loop
RECURSIVE Queue_copy_loop(_, _, _, _)
Queue_copy_loop(m, c, current, n) ==
  IF current = Null \/ n = 0 THEN m
  ELSE LET p == Queue_push(m, c, m.data[current]) IN
       IF p.exc # "none" THEN p
       ELSE Queue_copy_loop(p, c, m.next[current], n - 1)

\* Queue(const Queue<T>& other); its handler is for std::bad_alloc only
Queue_copy_ctor(m, c, other) ==
  LET i == [m EXCEPT !.kind[c] = "Queue", !.frontNode[c] = Null,
                     !.rearNode[c] = Null, !.queueSize[c] = 0,
                     !.log[c] = <<>>] IN
  IF Queue_is_empty(i, other) THEN i
  ELSE LET r == Queue_copy_loop(i, c, i.frontNode[other], MaxNodes) IN
       IF r.exc = "bad_alloc"
         THEN Rethrow(Queue_clear(r, c),
                "Memory allocation failed during copy construction: ")
         ELSE r

\* Queue(Queue<T>&& other)
Queue_move_ctor(m, c, other) ==
  [m EXCEPT !.kind[c] = "Queue",
            !.frontNode = [@ EXCEPT ![c] = m.frontNode[other], ![other] = Null],
            !.rearNode = [@ EXCEPT ![c] = m.rearNode[other], ![other] = Null],
            !.queueSize = [@ EXCEPT ![c] = m.queueSize[other], ![other] = 0],
            !.log = [@ EXCEPT ![c] = m.log[other], ![other] = <<>>]]

\* variant: copy assignment without clear(), pushing behind the old elements
Queue_copy_assign_NoClear(m, c, other) ==
  IF c = other THEN m
  ELSE LET r == Queue_copy_loop(m, c, m.frontNode[other], MaxNodes) IN
       IF r.exc = "bad_alloc"
         THEN Rethrow(r, "Memory allocation failed during copy assignment: ")
         ELSE r

\* operator=(const Queue<T>& other)
Queue_copy_assign(m, c, other) ==
  IF c = other THEN m
  ELSE LET cl == [Queue_clear(m, c) EXCEPT !.queueSize[c] = 0, !.ret = Null]
           r == Queue_copy_loop(cl, c, cl.frontNode[other], MaxNodes)
       IN IF r.exc = "bad_alloc"
            THEN Rethrow(r, "Memory allocation failed during copy assignment: ")
            ELSE r

\* variant: move assignment that leaves other.frontNode and other.rearNode
Queue_move_assign_KeepFront(m, c, other) ==
  IF c = other THEN m
  ELSE LET cl == [Queue_clear(m, c) EXCEPT !.ret = Null] IN
       [cl EXCEPT
          !.frontNode[c] = cl.frontNode[other],
          !.rearNode[c] = cl.rearNode[other],
          !.queueSize = [@ EXCEPT ![c] = cl.queueSize[other], ![other] = 0],
          !.log = [@ EXCEPT ![c] = cl.log[other], ![other] = <<>>]]

\* operator=(Queue<T>&& other)
Queue_move_assign(m, c, other) ==
  IF c = other THEN m
  ELSE LET cl == [Queue_clear(m, c) EXCEPT !.ret = Null] IN
       [cl EXCEPT
          !.frontNode = [@ EXCEPT ![c] = cl.frontNode[other], ![other] = Null],
          !.rearNode = [@ EXCEPT ![c] = cl.rearNode[other], ![other] = Null],
          !.queueSize = [@ EXCEPT ![c] = cl.queueSize[other], ![other] = 0],
          !.log = [@ EXCEPT ![c] = cl.log[other], ![other] = <<>>]]

\* variant: assignment that clears *this before the cast is tested
Queue_assign_ClearFirst(m, c, other) ==
  IF m.kind[other] # "Queue"
    THEN Throw([Queue_clear(m, c) EXCEPT !.queueSize[c] = 0, !.ret = Null],
               "bad_cast", <<"std::bad_cast">>)
    ELSE Queue_copy_assign(m, c, other)

\* operator=(const fwd_container<T>& other)
Queue_assign(m, c, other) ==
  IF m.kind[other] # "Queue"
    THEN Throw(m, "bad_cast", <<"std::bad_cast">>)
    ELSE Queue_copy_assign(m, c, other)

\* ~Queue()
Queue_dtor(m, c) ==
  [Queue_clear(m, c) EXCEPT !.kind[c] = "none", !.queueSize[c] = 0,
                            !.log[c] = <<>>, !.ret = Null]

\* ------------------------------------------------- fwd_container (virtual)
push(m, c, value) ==
  IF m.kind[c] = "Stack" THEN Stack_push(m, c, value) ELSE Queue_push(m, c, value)

pop(m, c) ==
  IF m.kind[c] = "Stack" THEN Stack_pop(m, c) ELSE Queue_pop(m, c)

get_front(m, c) ==
  IF m.kind[c] = "Stack" THEN Stack_get_front(m, c) ELSE Queue_get_front(m, c)

is_empty(m, c) ==
  IF m.kind[c] = "Stack" THEN Stack_is_empty(m, c) ELSE Queue_is_empty(m, c)

size(m, c) ==
  IF m.kind[c] = "Stack" THEN Stack_size(m, c) ELSE Queue_size(m, c)

clear(m, c) ==
  IF m.kind[c] = "Stack" THEN Stack_clear(m, c) ELSE Queue_clear(m, c)

assign(m, c, other) ==
  IF m.kind[c] = "Stack" THEN Stack_assign(m, c, other) ELSE Queue_assign(m, c, other)

\* ------------------------------------------------------------- cursors
\* stack_iterator(node), stack_const_iterator(node), queue_iterator(node),
\* queue_const_iterator(node)
Cursor(cls, node) == [cls |-> cls, current |-> node]

\* the null iterator_base* / const_iterator_base* of an empty handle
NoCursor == Cursor("nullptr", Null)

\* iterator(iterator_base* p), const_iterator(const_iterator_base* p)
Handle(const, p) == [const |-> const, ptr |-> p]

\* variant: begin() on the node under the top
Stack_begin_Next(m, c) ==
  Handle(FALSE, Cursor("stack_iterator",
                       IF m.topNode[c] = Null THEN Null ELSE m.next[m.topNode[c]]))
\* variant: cbegin() on the rear node
Queue_cbegin_Rear(m, c) ==
  Handle(TRUE, Cursor("queue_const_iterator", m.rearNode[c]))
\* variant: end() on the rear node
Queue_end_Rear(m, c) == Handle(FALSE, Cursor("queue_iterator", m.rearNode[c]))

Stack_begin(m, c) == Handle(FALSE, Cursor("stack_iterator", m.topNode[c]))
Stack_end(m, c) == Handle(FALSE, Cursor("stack_iterator", Null))
Stack_cbegin(m, c) == Handle(TRUE, Cursor("stack_const_iterator", m.topNode[c]))
Stack_cend(m, c) == Handle(TRUE, Cursor("stack_const_iterator", Null))
Queue_begin(m, c) == Handle(FALSE, Cursor("queue_iterator", m.frontNode[c]))
Queue_end(m, c) == Handle(FALSE, Cursor("queue_iterator", Null))
Queue_cbegin(m, c) == Handle(TRUE, Cursor("queue_const_iterator", m.frontNode[c]))
Queue_cend(m, c) == Handle(TRUE, Cursor("queue_const_iterator", Null))

\* begin() / end() on a mutable object, begin() const / end() const and
\* cbegin() / cend(), through the virtual interface
begin(m, c, flavour) ==
  IF m.kind[c] = "Stack"
    THEN IF flavour = "mutable" THEN Stack_begin(m, c) ELSE Stack_cbegin(m, c)
    ELSE IF flavour = "mutable" THEN Queue_begin(m, c) ELSE Queue_cbegin(m, c)

end(m, c, flavour) ==
  IF m.kind[c] = "Stack"
    THEN IF flavour = "mutable" THEN Stack_end(m, c) ELSE Stack_cend(m, c)
    ELSE IF flavour = "mutable" THEN Queue_end(m, c) ELSE Queue_cend(m, c)

StackCursors == {"stack_iterator", "stack_const_iterator"}
QueueCursors == {"queue_iterator", "queue_const_iterator"}

\* operator*() of the four cursor classes
cursor_deref(m, p) == m.data[p.current]

\* variant: operator++() without the test of current, the read of next
\* through the null pointer giving the first node address
cursor_inc_Unguarded(m, p) ==
  [p EXCEPT !.current = IF p.current = Null THEN 1 ELSE m.next[p.current]]

\* operator++() of the four cursor classes
cursor_inc(m, p) ==
  IF p.current # Null THEN [p EXCEPT !.current = m.next[p.current]] ELSE p

\* variant: operator*() returns a reference to the data of the next node
\* when there is one
cursor_write_Next(m, p, value) ==
  LET n == IF m.next[p.current] = Null THEN p.current ELSE m.next[p.current]
  IN [m EXCEPT !.data[n] = value]

\* *it = value through a stack_iterator or queue_iterator: operator*()
\* returns a reference to current->data
cursor_write(m, p, value) ==
  [m EXCEPT !.data[p.current] = value,
            !.log = [c \in AllObjs |->
                       [i \in 1..Len(m.log[c]) |->
                          IF m.log[c][i].node = p.current
                            THEN [node |-> p.current, val |-> value]
                            ELSE m.log[c][i]]]]

\* static constexpr int iterator_kind = 2; of both Stack cursor classes
iterator_kind == 2

\* the kind discriminant of the Queue cursor classes
Queue_iterator_kind == 1

\* get_iterator_kind()
get_iterator_kind(p) ==
  IF p.cls \in StackCursors THEN iterator_kind ELSE Queue_iterator_kind

\* variant: the Stack comparison that takes a cursor of the other flavour
\* for a cursor of another class
Stack_cursor_eq_SameClass(p, q) == p.cls = q.cls /\ p.current = q.current

\* stack_iterator::operator== and stack_const_iterator::operator==, against
\* either base class: the kinds first, then static_cast and the positions
Stack_cursor_eq(p, q) ==
  IF get_iterator_kind(p) # get_iterator_kind(q) THEN FALSE
  ELSE p.current = q.current

\* variant: the Queue comparison with static_cast in place of dynamic_cast
Queue_cursor_eq_StaticCast(p, q) == p.current = q.current

\* queue_iterator::operator== and queue_const_iterator::operator==, against
\* either base class: dynamic_cast to the Queue cursor class of that base,
\* null for a cursor of another class, then the positions
Queue_cursor_eq(p, q) ==
  /\ q.cls \in QueueCursors
  /\ p.current = q.current

\* *p == q, dispatched on the class of the left cursor
cursor_eq(p, q) ==
  IF p.cls \in StackCursors THEN Stack_cursor_eq(p, q)
  ELSE Queue_cursor_eq(p, q)

\* variant: operator== that takes an empty handle for one at the end
handle_eq_NullIsEnd(h, g) ==
  IF h.ptr = NoCursor \/ g.ptr = NoCursor THEN h.ptr.current = g.ptr.current
  ELSE cursor_eq(h.ptr, g.ptr)

\* iterator::operator== / const_iterator::operator==
handle_eq(h, g) ==
  IF h.ptr = NoCursor /\ g.ptr = NoCursor THEN TRUE
  ELSE IF h.ptr = NoCursor \/ g.ptr = NoCursor THEN FALSE
  ELSE cursor_eq(h.ptr, g.ptr)

\* iterator::operator!= / const_iterator::operator!=
handle_neq(h, g) == ~handle_eq(h, g)

\* iterator::operator*() / const_iterator::operator*()
handle_deref(m, h) == cursor_deref(m, h.ptr)

\* iterator::operator++() / const_iterator::operator++()
handle_inc(m, h) == [h EXCEPT !.ptr = cursor_inc(m, h.ptr)]

\* *it = value;
handle_write(m, h, value) == cursor_write(m, h.ptr, value)

\* ++it, k times
RECURSIVE advance(_, _, _)
advance(m, h, k) ==
  IF k = 0 THEN h ELSE advance(m, handle_inc(m, h), k - 1)

\* for (auto it = c.begin(); it != c.end(); ++it) visit(*it);
\* the values visited, in order (at most n of them)
RECURSIVE for_loop(_, _, _, _)
for_loop(m, it, e, n) ==
  IF ~handle_neq(it, e) \/ n = 0 THEN <<>>
  ELSE <<handle_deref(m, it)>> \o for_loop(m, handle_inc(m, it), e, n - 1)

for_range(m, c, flavour) ==
  for_loop(m, begin(m, c, flavour), end(m, c, flavour), MaxNodes + 1)

\* ------------------------------------------------------ handle objects
\* an iterator / const_iterator object that is not constructed
NoHandle == [type |-> "none", ptr |-> Null]

FreeCursors(m) == {p \in CAddrs : m.cursors[p] = NoCursor}

\* new stack_iterator(node), new stack_const_iterator(node),
\* new queue_iterator(node), new queue_const_iterator(node)
NewCursor(m, cls, node) ==
  IF FreeCursors(m) = {}
    THEN Throw(m, "bad_alloc", <<"std::bad_alloc">>)
    ELSE LET p == CHOOSE x \in FreeCursors(m) : \A y \in FreeCursors(m) : x <= y
         IN [m EXCEPT !.cursors[p] = Cursor(cls, node), !.ret = p]

\* delete ptr; nothing for a null ptr
DeleteCursor(m, p) ==
  IF p = Null THEN m ELSE [m EXCEPT !.cursors[p] = NoCursor]

\* clone() of the four cursor classes: new <same class>(current)
clone(m, p) == NewCursor(m, m.cursors[p].cls, m.cursors[p].current)

\* create_const() of stack_iterator and queue_iterator:
\* new stack_const_iterator(current), new queue_const_iterator(current)
create_const(m, p) ==
  NewCursor(m, IF m.cursors[p].cls = "stack_iterator"
                 THEN "stack_const_iterator" ELSE "queue_const_iterator",
            m.cursors[p].current)

\* the object h read as a value: its flavour and the cursor it points to
HandleAt(m, h) ==
  Handle(m.handles[h].type = "const_iterator",
         IF m.handles[h].ptr = Null THEN NoCursor
         ELSE m.cursors[m.handles[h].ptr])

\* iterator() : ptr(nullptr), const_iterator() : ptr(nullptr)
iterator_default_ctor(m, h, type) ==
  [m EXCEPT !.handles[h] = [type |-> type, ptr |-> Null]]

\* iterator(iterator_base* p) : ptr(p), const_iterator(const_iterator_base* p)
iterator_ptr_ctor(m, h, type, p) ==
  [m EXCEPT !.handles[h] = [type |-> type, ptr |-> p]]

\* variant: copy constructor that copies the pointer
iterator_copy_ctor_Alias(m, h, other) ==
  [m EXCEPT !.handles[h] = m.handles[other]]

\* iterator(const iterator& other) : ptr(other.ptr ? other.ptr->clone() : nullptr)
\* and the same of const_iterator
iterator_copy_ctor(m, h, other) ==
  IF m.handles[other].ptr = Null
    THEN [m EXCEPT !.handles[h] = [type |-> m.handles[other].type, ptr |-> Null]]
    ELSE LET n == clone(m, m.handles[other].ptr) IN
         IF n.exc # "none" THEN n
         ELSE [n EXCEPT !.handles[h] = [type |-> m.handles[other].type,
                                        ptr |-> n.ret],
                        !.ret = Null]

\* variant: move constructor that leaves other.ptr
iterator_move_ctor_KeepSource(m, h, other) ==
  [m EXCEPT !.handles[h] = m.handles[other]]

\* iterator(iterator&& other) noexcept : ptr(other.ptr) { other.ptr = nullptr; }
\* and the same of const_iterator
iterator_move_ctor(m, h, other) ==
  [m EXCEPT !.handles[h] = m.handles[other],
            !.handles[other].ptr = Null]

\* iterator(const const_iterator& other) : ptr(nullptr) {}
iterator_from_const_iterator(m, h, other) ==
  [m EXCEPT !.handles[h] = [type |-> "iterator", ptr |-> Null]]

\* variant: conversion that leaves the null placeholder
const_iterator_from_iterator_Null(m, h, other) ==
  [m EXCEPT !.handles[h] = [type |-> "const_iterator", ptr |-> Null]]

\* const_iterator(const iterator& other) : ptr(nullptr)
\* { if (other.ptr) ptr = other.ptr->create_const(); }
const_iterator_from_iterator(m, h, other) ==
  IF m.handles[other].ptr = Null
    THEN [m EXCEPT !.handles[h] = [type |-> "const_iterator", ptr |-> Null]]
    ELSE LET n == create_const(m, m.handles[other].ptr) IN
         IF n.exc # "none" THEN n
         ELSE [n EXCEPT !.handles[h] = [type |-> "const_iterator", ptr |-> n.ret],
                        !.ret = Null]

\* ~iterator() { delete ptr; }, ~const_iterator() { delete ptr; }
iterator_dtor(m, h) ==
  [DeleteCursor(m, m.handles[h].ptr) EXCEPT !.handles[h] = NoHandle]

\* operator=(const iterator& other), operator=(const const_iterator& other)
\* of the same class: delete ptr; ptr = other.ptr ? other.ptr->clone() : nullptr;
iterator_copy_assign(m, h, other) ==
  IF h = other THEN m
  ELSE LET d == DeleteCursor(m, m.handles[h].ptr) IN
       IF d.handles[other].ptr = Null THEN [d EXCEPT !.handles[h].ptr = Null]
       ELSE LET n == clone(d, d.handles[other].ptr) IN
            IF n.exc # "none" THEN n
            ELSE [n EXCEPT !.handles[h].ptr = n.ret, !.ret = Null]

\* operator=(iterator&& other) noexcept, operator=(const_iterator&& other)
\* noexcept: delete ptr; ptr = other.ptr; other.ptr = nullptr;
iterator_move_assign(m, h, other) ==
  IF h = other THEN m
  ELSE LET d == DeleteCursor(m, m.handles[h].ptr) IN
       [d EXCEPT !.handles[h].ptr = d.handles[other].ptr,
                 !.handles[other].ptr = Null]

\* iterator& operator=(const const_iterator& other): delete ptr; ptr = nullptr;
iterator_assign_const_iterator(m, h, other) ==
  [DeleteCursor(m, m.handles[h].ptr) EXCEPT !.handles[h].ptr = Null]

\* const_iterator& operator=(const iterator& other):
\* delete ptr; ptr = other.ptr ? other.ptr->create_const() : nullptr;
const_iterator_assign_iterator(m, h, other) ==
  LET d == DeleteCursor(m, m.handles[h].ptr) IN
  IF d.handles[other].ptr = Null THEN [d EXCEPT !.handles[h].ptr = Null]
  ELSE LET n == create_const(d, d.handles[other].ptr) IN
       IF n.exc # "none" THEN n
       ELSE [n EXCEPT !.handles[h].ptr = n.ret, !.ret = Null]

\* operator++(): ++(*ptr); return *this;
iterator_pre_inc(m, h) ==
  [m EXCEPT !.cursors[m.handles[h].ptr] = cursor_inc(m, @)]

\* variant: operator++(int) that takes the snapshot after advancing
iterator_post_inc_Late(m, h) ==
  iterator_copy_ctor(iterator_pre_inc(m, h), "temp", h)

\* operator++(int): iterator temp = *this; ++(*ptr); return temp;
iterator_post_inc(m, h) ==
  LET t == iterator_copy_ctor(m, "temp", h) IN
  IF t.exc # "none" THEN t ELSE iterator_pre_inc(t, h)

\* ------------------------------------------------------------- streams
good(is) == is.state = {}
eof(is) == "eofbit" \in is.state
fail(is) == is.state \cap {"failbit", "badbit"} # {}
setstate(is, bit) == [is EXCEPT !.state = @ \cup {bit}]

\* is >> value for an arithmetic T: the stream after it, and the value
\* when the extraction succeeded (NoVal when it failed)
extract(is) ==
  IF ~good(is)
    THEN [is |-> setstate(is, "failbit"), value |-> NoVal]
  ELSE IF is.buf = <<>>
    THEN [is |-> [is EXCEPT !.state = {"eofbit", "failbit"}, !.tail = ""],
          value |-> NoVal]
  ELSE IF Head(is.buf) = BadToken
    THEN [is |-> setstate(is, "failbit"), value |-> NoVal]
  ELSE [is |-> [is EXCEPT !.buf = Tail(@),
                          !.state = IF Tail(is.buf) = <<>> /\ is.tail = ""
                                      THEN {"eofbit"} ELSE {}],
        value |-> Head(is.buf)]

\* while (is >> value) { try { this->push(value); } catch ... }
RECURSIVE read_loop(_, _, _)
read_loop(m, c, n) ==
  LET e == extract(m.is)
      x == [m EXCEPT !.is = e.is]
  IN IF fail(e.is) \/ n = 0 THEN x
     ELSE LET p == push(x, c, e.value) IN
          IF p.exc = "bad_alloc"
            THEN Rethrow(p, "Memory allocation failed during input: ")
          ELSE IF p.exc # "none"
            THEN Rethrow(p, "Push operation failed during input: ")
          ELSE IF ~good(p.is) /\ ~eof(p.is)
            THEN Throw(p, "runtime_error",
                       <<"Input stream failed during data reading">>)
          ELSE read_loop(p, c, n - 1)

\* variant: after the loop the stream is tested for fail() alone
read_end_FailAlone(r) ==
  IF r.exc # "none" THEN r
  ELSE IF fail(r.is)
    THEN Throw(r, "runtime_error", <<"Failed to parse input data">>)
  ELSE r

\* after the loop: if (is.eof()) is.clear();
\* if (is.fail() && !is.eof()) throw std::runtime_error(...);
read_end(r) ==
  IF r.exc # "none" THEN r
  ELSE IF eof(r.is) THEN [r EXCEPT !.is.state = {}]
  ELSE IF fail(r.is)
    THEN Throw(r, "runtime_error", <<"Failed to parse input data">>)
  ELSE r

\* the inner try block of read(), after the backup was taken
read_body(m, c) == read_end(read_loop(m, c, Len(m.is.buf) + 1))

\* catch (const std::exception& e) { is.setstate(failbit); throw ...; }
read_failed(m, prefix) ==
  [Rethrow(m, prefix) EXCEPT !.is = setstate(m.is, "failbit")]

\* variant: the handler rethrows without *this = std::move(backup)
Stack_read_finish_NoRestore(r, c) ==
  IF r.exc = "none" THEN Stack_dtor(r, "backup")
  ELSE read_failed(Stack_dtor(r, "backup"), "Stack input failed: ")

\* the end of the inner try block with outcome r: return is, or
\* catch (...) { *this = std::move(backup); throw; }; backup dies either way
Stack_read_finish(r, c) ==
  IF r.exc = "none" THEN Stack_dtor(r, "backup")
  ELSE read_failed(Stack_dtor(Stack_move_assign(r, c, "backup"), "backup"),
                   "Stack input failed: ")

\* variant: read that empties *this once the backup is taken
Stack_read_backup_Replace(b, c) ==
  IF b.exc # "none"
    THEN read_failed([b EXCEPT !.kind["backup"] = "none",
                               !.stackSize["backup"] = 0],
                     "Stack input failed: ")
    ELSE Stack_read_finish(read_body(Stack_clear(b, c), c), c)

\* Stack<T> backup = *this; with outcome b, and the inner try block
Stack_read_backup(b, c) ==
  IF b.exc # "none"
    THEN read_failed([b EXCEPT !.kind["backup"] = "none",
                               !.stackSize["backup"] = 0],
                     "Stack input failed: ")
    ELSE Stack_read_finish(read_body(b, c), c)

Stack_read(m, c) ==
  IF ~good(m.is)
    THEN read_failed(Throw(m, "runtime_error", <<"Input stream is in bad state">>),
                     "Stack input failed: ")
    ELSE Stack_read_backup(Stack_copy_ctor(m, "backup", c), c)

\* variant: the handler rethrows without *this = std::move(backup)
Queue_read_finish_NoRestore(r, c) ==
  IF r.exc = "none" THEN Queue_dtor(r, "backup")
  ELSE read_failed(Queue_dtor(r, "backup"), "Queue input failed: ")

Queue_read_finish(r, c) ==
  IF r.exc = "none" THEN Queue_dtor(r, "backup")
  ELSE read_failed(Queue_dtor(Queue_move_assign(r, c, "backup"), "backup"),
                   "Queue input failed: ")

\* Queue<T> backup = *this; with outcome b, and the inner try block
Queue_read_backup(b, c) ==
  IF b.exc # "none"
    THEN read_failed([b EXCEPT !.kind["backup"] = "none",
                               !.frontNode["backup"] = Null,
                               !.rearNode["backup"] = Null,
                               !.queueSize["backup"] = 0,
                               !.log["backup"] = <<>>],
                     "Queue input failed: ")
    ELSE Queue_read_finish(read_body(b, c), c)

Queue_read(m, c) ==
  IF ~good(m.is)
    THEN read_failed(Throw(m, "runtime_error", <<"Input stream is in bad state">>),
                     "Queue input failed: ")
    ELSE Queue_read_backup(Queue_copy_ctor(m, "backup", c), c)

\* operator>>(std::istream&, fwd_container<T>&)
read(m, c) ==
  IF m.kind[c] = "Stack" THEN Stack_read(m, c) ELSE Queue_read(m, c)

\* os << x: nothing is written to a stream that is not good; a destination
\* that takes no more sets badbit
put(os, x) ==
  IF ~good(os) THEN setstate(os, "failbit")
  ELSE IF os.room = 0 THEN setstate(os, "badbit")
  ELSE [os EXCEPT !.text = Append(@, x), !.room = @ - 1]

\* catch (const std::exception& e) { os.setstate(failbit); throw ...; }
print_failed(m, prefix) ==
  [Rethrow(m, prefix) EXCEPT !.os = setstate(m.os, "failbit")]

\* variant: the loop writes " " after every element
RECURSIVE print_loop_Trailing(_, _, _, _)
print_loop_Trailing(m, current, first, n) ==
  IF current = Null \/ n = 0 THEN m
  ELSE IF ~good(m.os)
    THEN Throw(m, "runtime_error", <<"Output stream failed during serialization">>)
  ELSE print_loop_Trailing(
         [m EXCEPT !.os = put(put(m.os, m.data[current]), Sp)],
         m.next[current], FALSE, n - 1)

\* variant: the loop writes the elements without " " between them
RECURSIVE print_loop_NoSep(_, _, _, _)
print_loop_NoSep(m, current, first, n) ==
  IF current = Null \/ n = 0 THEN m
  ELSE IF ~good(m.os)
    THEN Throw(m, "runtime_error", <<"Output stream failed during serialization">>)
  ELSE print_loop_NoSep([m EXCEPT !.os = put(m.os, m.data[current])],
                        m.next[current], FALSE, n - 1)

\* while (current != nullptr) { if (!first) os << " "; ... os << data; }
RECURSIVE print_loop(_, _, _, _)
RECURSIVE print_data(_, _, _)
print_loop(m, current, first, n) ==
  IF current = Null \/ n = 0 THEN m
  ELSE print_data(IF first THEN m ELSE [m EXCEPT !.os = put(m.os, Sp)],
                  current, n)

\* if (!os.good()) throw ...; os << current->data; current = current->next;
print_data(s, current, n) ==
  IF ~good(s.os)
    THEN Throw(s, "runtime_error", <<"Output stream failed during serialization">>)
    ELSE print_loop([s EXCEPT !.os = put(s.os, s.data[current])],
                    s.next[current], FALSE, n - 1)

\* variant: no test of the stream after the loop
print_end_NoTest(r, prefix) ==
  IF r.exc # "none" THEN print_failed(r, prefix) ELSE r

\* after the loop: if (!os.good()) throw ...; return os; and the handler
print_end(r, prefix) ==
  IF r.exc # "none" THEN print_failed(r, prefix)
  ELSE IF ~good(r.os)
    THEN print_failed(Throw(r, "runtime_error",
                            <<"Output stream failed after serialization">>),
                      prefix)
  ELSE r

print_from(m, head, prefix) ==
  IF ~good(m.os)
    THEN print_failed(Throw(m, "runtime_error", <<"Output stream is in bad state">>),
                      prefix)
    ELSE print_end(print_loop(m, head, TRUE, MaxNodes + 1), prefix)

Stack_print(m, c) ==
  print_from(m, m.topNode[c], "Stack serialization failed: ")

\* variant: print that starts at the rear node
Queue_print_FromRear(m, c) ==
  print_from(m, m.rearNode[c], "Queue serialization failed: ")

Queue_print(m, c) ==
  print_from(m, m.frontNode[c], "Queue serialization failed: ")

\* operator<<(std::ostream&, const fwd_container<T>&)
print(m, c) ==
  IF m.kind[c] = "Stack" THEN Stack_print(m, c) ELSE Queue_print(m, c)

\* the tokens that formatted extraction finds in a text: white space
\* separates them, and values written without a separator read as one
\* number (the values have two digits); acc is the number being read
RECURSIVE tokens(_, _)
tokens(text, acc) ==
  IF text = <<>> THEN (IF acc = NoVal THEN <<>> ELSE <<acc>>)
  ELSE IF Head(text) = Sp
    THEN (IF acc = NoVal THEN <<>> ELSE <<acc>>) \o tokens(Tail(text), NoVal)
  ELSE tokens(Tail(text),
              IF acc = NoVal THEN Head(text) ELSE acc * 100 + Head(text))

\* std::stringstream is(text);
str(text) ==
  [state |-> {}, buf |-> tokens(text, NoVal),
   tail |-> IF text # <<>> /\ text[Len(text)] = Sp THEN " " ELSE ""]

\* ---------------------------------------------------------------- calls
NoCall == [op |-> "none", obj |-> "", src |-> "",
           exc |-> "none", what |-> <<>>, ret |-> Null]

Call(op, obj, src, m) ==
  [op |-> op, obj |-> obj, src |-> src,
   exc |-> m.exc, what |-> m.what, ret |-> m.ret]

Commit(m, call) ==
  /\ live' = m.live
  /\ data' = m.data
  /\ next' = m.next
  /\ kind' = m.kind
  /\ topNode' = m.topNode
  /\ stackSize' = m.stackSize
  /\ frontNode' = m.frontNode
  /\ rearNode' = m.rearNode
  /\ queueSize' = m.queueSize
  /\ log' = m.log
  /\ cursors' = m.cursors
  /\ handles' = m.handles
  /\ last' = call

\* a constructor that throws leaves no object behind
Unconstructed(m, c) ==
  IF m.exc = "none" THEN m
  ELSE [m EXCEPT !.kind[c] = "none", !.topNode[c] = Null, !.stackSize[c] = 0,
                 !.frontNode[c] = Null, !.rearNode[c] = Null,
                 !.queueSize[c] = 0, !.log[c] = <<>>]

Budgets == 0..MaxNodes
Idle == last.op = "none"
Flavours == {"mutable", "const", "c"}
\* the input texts tried, as token sequences, and the streams that hold
\* them; one stream is already failed before the call
Inputs == {<<>>, <<10>>, <<20, 10>>, <<10, 20, 30>>, <<BadToken>>,
           <<10, BadToken>>, <<10, BadToken, 20>>}
Streams == [state : {{}}, buf : Inputs, tail : {"", " ", "-"}]
             \cup {[state |-> {"failbit"}, buf |-> <<10>>, tail |-> ""]}
\* an output stream that takes everything
Writable == [state |-> {}, text |-> <<>>, room |-> 2 * MaxNodes]
\* the output streams tried: the destination becomes unwritable after room
\* insertions, or the stream is failed before the call
OutStreams == [state : {{}}, text : {<<>>}, room : 0..(2 * MaxNodes)]
                \cup {[state |-> {"failbit"}, text |-> <<>>, room |-> 0]}
\* the streams whose every value is 10
Streams10 == {is \in Streams : \A i \in 1..Len(is.buf) : is.buf[i] # 20}

Init ==
  /\ live = {}
  /\ data = [a \in Addrs |-> NoVal]
  /\ next = [a \in Addrs |-> Null]
  /\ kind = [c \in AllObjs |-> "none"]
  /\ topNode = [c \in AllObjs |-> Null]
  /\ stackSize = [c \in AllObjs |-> 0]
  /\ frontNode = [c \in AllObjs |-> Null]
  /\ rearNode = [c \in AllObjs |-> Null]
  /\ queueSize = [c \in AllObjs |-> 0]
  /\ log = [c \in AllObjs |-> <<>>]
  /\ cursors = [p \in CAddrs |-> NoCursor]
  /\ handles = [h \in AllIts |-> NoHandle]
  /\ last = NoCall

\* Stack<T> c;
NewStack(c) ==
  /\ Idle
  /\ kind[c] = "none"
  /\ LET m == Mem(0) IN
     Commit([m EXCEPT !.kind[c] = "Stack", !.topNode[c] = Null,
                      !.stackSize[c] = 0],
            Call("Stack", c, "", m))

\* Queue<T> c;
NewQueue(c) ==
  /\ Idle
  /\ kind[c] = "none"
  /\ LET m == Mem(0) IN
     Commit([m EXCEPT !.kind[c] = "Queue", !.frontNode[c] = Null,
                      !.rearNode[c] = Null, !.queueSize[c] = 0],
            Call("Queue", c, "", m))

\* Stack<T> c(other);  Queue<T> c(other);
CopyConstruct(c, other, budget) ==
  /\ Idle
  /\ kind[c] = "none" /\ kind[other] # "none"
  /\ LET m == IF kind[other] = "Stack"
                THEN Stack_copy_ctor(Mem(budget), c, other)
                ELSE Queue_copy_ctor(Mem(budget), c, other)
     IN Commit(Unconstructed(m, c), Call("copy_ctor", c, other, m))

\* Stack<T> c(std::move(other));  Queue<T> c(std::move(other));
MoveConstruct(c, other) ==
  /\ Idle
  /\ kind[c] = "none" /\ kind[other] # "none"
  /\ LET m == IF kind[other] = "Stack"
                THEN Stack_move_ctor(Mem(0), c, other)
                ELSE Queue_move_ctor(Mem(0), c, other)
     IN Commit(m, Call("move_ctor", c, other, m))

\* c = other;  (both of one class)
CopyAssign(c, other, budget) ==
  /\ Idle
  /\ kind[c] # "none" /\ kind[other] = kind[c]
  /\ LET m == IF kind[c] = "Stack"
                THEN Stack_copy_assign(Mem(budget), c, other)
                ELSE Queue_copy_assign(Mem(budget), c, other)
     IN Commit(m, Call("copy_assign", c, other, m))

\* c = std::move(other);  (both of one class)
MoveAssign(c, other) ==
  /\ Idle
  /\ kind[c] # "none" /\ kind[other] = kind[c]
  /\ LET m == IF kind[c] = "Stack"
                THEN Stack_move_assign(Mem(0), c, other)
                ELSE Queue_move_assign(Mem(0), c, other)
     IN Commit(m, Call("move_assign", c, other, m))

\* fwd_container<T>& r = c; r = other;
Assign(c, other, budget) ==
  /\ Idle
  /\ kind[c] # "none" /\ kind[other] # "none"
  /\ LET m == assign(Mem(budget), c, other) IN
     Commit(m, Call("assign", c, other, m))

\* the object goes out of scope
Destroy(c) ==
  /\ Idle
  /\ kind[c] # "none"
  /\ LET m == IF kind[c] = "Stack" THEN Stack_dtor(Mem(0), c)
                                   ELSE Queue_dtor(Mem(0), c)
     IN Commit(m, Call("dtor", c, "", m))

Push(c, value, budget) ==
  /\ Idle
  /\ kind[c] # "none"
  /\ LET m == push(Mem(budget), c, value) IN
     Commit(m, Call("push", c, "", m))

Pop(c) ==
  /\ Idle
  /\ kind[c] # "none"
  /\ LET m == pop(Mem(0), c) IN
     Commit(m, Call("pop", c, "", m))

\* c.get_front();  or, by its alias, s.top();  q.front();
GetFront(c, alias) ==
  /\ Idle
  /\ kind[c] # "none"
  /\ LET m == IF ~alias THEN get_front(Mem(0), c)
              ELSE IF kind[c] = "Stack" THEN Stack_top(Mem(0), c)
              ELSE Queue_front(Mem(0), c)
     IN Commit(m, Call("get_front", c, "", m))

Clear(c) ==
  /\ Idle
  /\ kind[c] # "none"
  /\ LET m == [clear(Mem(0), c) EXCEPT !.ret = Null] IN
     Commit(m, Call("clear", c, "", m))

\* is >> c;
Read(c, is, budget) ==
  /\ Idle
  /\ kind[c] # "none"
  /\ LET m == read([Mem(budget) EXCEPT !.is = is], c) IN
     Commit(m, Call("read", c, "",
                    [m EXCEPT !.ret = [state |-> m.is.state, input |-> is]]))

\* for (auto& v : c) ...
ForEach(c, flavour) ==
  /\ Idle
  /\ kind[c] # "none"
  /\ LET m == Mem(0) IN
     Commit(m, Call("for", c, "", [m EXCEPT !.ret = for_range(m, c, flavour)]))

\* auto it = c.begin(); ++it (k times); *it = value;
\* it stands on an element: k < size()
Write(c, k, value) ==
  /\ Idle
  /\ kind[c] # "none"
  /\ k < size(Mem(0), c)
  /\ LET m == Mem(0) IN
     Commit(handle_write(m, advance(m, begin(m, c, "mutable"), k), value),
            Call("write", c, "", [m EXCEPT !.ret = <<k, value>>]))

\* it = c.begin() or c.cbegin(), advanced kc times; jt likewise on d;
\* it == jt; jt == it;
Compare(c, fc, kc, d, fd, kd) ==
  /\ Idle
  /\ kind[c] # "none" /\ kind[d] # "none"
  /\ LET m == Mem(0)
         it == advance(m, begin(m, c, fc), kc)
         jt == advance(m, begin(m, d, fd), kd)
     IN Commit(m, Call("compare", c, d,
                       [m EXCEPT !.ret = [at |-> <<it.ptr.current, jt.ptr.current>>,
                                          eq |-> <<handle_eq(it, jt),
                                                   handle_eq(jt, it)>>]]))

\* os << c;
Serialize(c, os) ==
  /\ Idle
  /\ kind[c] # "none"
  /\ LET m == print([Mem(0) EXCEPT !.os = os], c) IN
     Commit(m, Call("print", c, "",
                    [m EXCEPT !.ret = [state |-> m.os.state, text |-> m.os.text]]))

\* std::stringstream ss; ss << c; ss >> d;
RoundTrip(c, d) ==
  /\ Idle
  /\ kind[c] # "none" /\ kind[d] # "none"
  /\ LET p == print([Mem(MaxNodes) EXCEPT !.os = Writable], c)
         m == read([p EXCEPT !.is = str(p.os.text)], d)
     IN Commit(m, Call("print_read", d, c, [m EXCEPT !.ret = p.os.text]))

\* the class of the handle that begin() / end() of this flavour returns
TypeOf(flavour) == IF flavour = "mutable" THEN "iterator" ELSE "const_iterator"

\* c.begin() / c.end() / c.cbegin() / c.cend(): the cursor is allocated and
\* the handle that owns it is returned in object h
returned(m, h, c, flavour, atEnd) ==
  LET v == IF atEnd THEN end(m, c, flavour) ELSE begin(m, c, flavour)
      n == NewCursor(m, v.ptr.cls, v.ptr.current)
  IN IF n.exc # "none" THEN n
     ELSE [iterator_ptr_ctor(n, h, TypeOf(flavour), n.ret) EXCEPT !.ret = Null]

\* Stack<int>::iterator h = c.begin();  (or end(), cbegin(), cend())
ItBegin(h, c, flavour, atEnd) ==
  /\ Idle
  /\ handles[h].type = "none" /\ kind[c] # "none"
  /\ LET m == returned(Mem(0), h, c, flavour, atEnd) IN
     Commit(m, Call("it_begin", h, c, m))

\* Stack<int>::iterator h;  Stack<int>::const_iterator h;
ItDefault(h, type) ==
  /\ Idle
  /\ handles[h].type = "none"
  /\ LET m == iterator_default_ctor(Mem(0), h, type) IN
     Commit(m, Call("it_default", h, "", m))

\* iterator h(g);  const_iterator h(g);  with g of the class of h
ItCopyConstruct(h, g) ==
  /\ Idle
  /\ handles[h].type = "none" /\ handles[g].type # "none"
  /\ LET m == iterator_copy_ctor(Mem(0), h, g) IN
     Commit(m, Call("it_copy_ctor", h, g, m))

\* iterator h(std::move(g));  const_iterator h(std::move(g));
ItMoveConstruct(h, g) ==
  /\ Idle
  /\ handles[h].type = "none" /\ handles[g].type # "none"
  /\ LET m == iterator_move_ctor(Mem(0), h, g) IN
     Commit(m, Call("it_move_ctor", h, g, m))

\* const_iterator h(g); with g an iterator, iterator h(g); with g a
\* const_iterator
ItConvertConstruct(h, g) ==
  /\ Idle
  /\ handles[h].type = "none" /\ handles[g].type # "none"
  /\ LET m == IF handles[g].type = "iterator"
                THEN const_iterator_from_iterator(Mem(0), h, g)
                ELSE iterator_from_const_iterator(Mem(0), h, g)
     IN Commit(m, Call("it_convert_ctor", h, g, m))

\* h = g; with both of one class
ItCopyAssign(h, g) ==
  /\ Idle
  /\ handles[h].type # "none" /\ handles[g].type = handles[h].type
  /\ LET m == iterator_copy_assign(Mem(0), h, g) IN
     Commit(m, Call("it_copy_assign", h, g, m))

\* h = std::move(g); with both of one class
ItMoveAssign(h, g) ==
  /\ Idle
  /\ handles[h].type # "none" /\ handles[g].type = handles[h].type
  /\ LET m == iterator_move_assign(Mem(0), h, g) IN
     Commit(m, Call("it_move_assign", h, g, m))

\* h = g; with h a const_iterator and g an iterator, or the reverse
ItConvertAssign(h, g) ==
  /\ Idle
  /\ handles[h].type # "none" /\ handles[g].type # "none"
  /\ handles[g].type # handles[h].type
  /\ LET m == IF handles[g].type = "iterator"
                THEN const_iterator_assign_iterator(Mem(0), h, g)
                ELSE iterator_assign_const_iterator(Mem(0), h, g)
     IN Commit(m, Call("it_convert_assign", h, g, m))

\* h = c.begin(); (or end(), cbegin(), cend()) with h of the class returned:
\* the temporary is move-assigned and destroyed
ItAssignBegin(h, c, flavour, atEnd) ==
  /\ Idle
  /\ handles[h].type = TypeOf(flavour) /\ kind[c] # "none"
  /\ LET t == returned(Mem(0), "temp", c, flavour, atEnd)
         m == IF t.exc # "none" THEN t
              ELSE iterator_dtor(iterator_move_assign(t, h, "temp"), "temp")
     IN Commit(m, Call("it_assign_begin", h, c, m))

\* ++h; on a handle that holds a cursor
ItInc(h) ==
  /\ Idle
  /\ handles[h].type # "none" /\ handles[h].ptr # Null
  /\ LET m == iterator_pre_inc(Mem(0), h) IN
     Commit(m, Call("it_inc", h, "", m))

\* g = h++; with both of one class: the returned temporary is move-assigned
\* to g and destroyed
ItPostInc(g, h) ==
  /\ Idle
  /\ g # h
  /\ handles[h].type # "none" /\ handles[h].ptr # Null
  /\ handles[g].type = handles[h].type
  /\ LET t == iterator_post_inc(Mem(0), h)
         m == IF t.exc # "none" THEN t
              ELSE iterator_dtor(iterator_move_assign(t, g, "temp"), "temp")
     IN Commit(m, Call("it_post_inc", g, h, m))

\* h == g; g == h; h != g; g != h;
ItCompare(h, g) ==
  /\ Idle
  /\ handles[h].type # "none" /\ handles[g].type # "none"
  /\ LET m == Mem(0)
         x == HandleAt(m, h)
         y == HandleAt(m, g)
     IN Commit(m, Call("it_compare", h, g,
                       [m EXCEPT !.ret = [eq |-> <<handle_eq(x, y), handle_eq(y, x)>>,
                                          neq |-> <<handle_neq(x, y),
                                                    handle_neq(y, x)>>]]))

\* h goes out of scope
ItDestroy(h) ==
  /\ Idle
  /\ handles[h].type # "none"
  /\ LET m == iterator_dtor(Mem(0), h) IN
     Commit(m, Call("it_dtor", h, "", m))

\* the caller takes the result of the call and goes on
Return ==
  /\ ~Idle
  /\ last' = NoCall
  /\ UNCHANGED <<live, data, next, kind, topNode, stackSize, frontNode,
                 rearNode, queueSize, log, cursors, handles>>

\* every operation, on both objects
Next ==
  \/ \E c \in Objs : NewStack(c)
  \/ \E c \in Objs : NewQueue(c)
  \/ \E c \in Objs, o \in Objs, b \in Budgets : CopyConstruct(c, o, b)
  \/ \E c \in Objs, o \in Objs : MoveConstruct(c, o)
  \/ \E c \in Objs, o \in Objs, b \in Budgets : CopyAssign(c, o, b)
  \/ \E c \in Objs, o \in Objs : MoveAssign(c, o)
  \/ \E c \in Objs, o \in Objs, b \in Budgets : Assign(c, o, b)
  \/ \E c \in Objs : Destroy(c)
  \/ \E c \in Objs, v \in {10}, b \in 0..1 : Push(c, v, b)
  \/ \E c \in Objs : Pop(c)
  \/ \E c \in Objs : Clear(c)
  \/ \E c \in Objs, is \in Streams10, b \in Budgets : Read(c, is, b)
  \/ Return

Spec == Init /\ [][Next]_vars

\* every operation that works on a single object, on one object
NextOne ==
  \/ NewStack("a")
  \/ NewQueue("a")
  \/ Destroy("a")
  \/ \E v \in Values, b \in 0..1 : Push("a", v, b)
  \/ Pop("a")
  \/ \E alias \in BOOLEAN : GetFront("a", alias)
  \/ Clear("a")
  \/ \E f \in Flavours : ForEach("a", f)
  \/ Return

SpecOne == Init /\ [][NextOne]_vars

\* two objects, built by pushes and then copied, moved and assigned
NextCopy ==
  \/ \E c \in Objs : NewStack(c)
  \/ \E c \in Objs : NewQueue(c)
  \/ CopyConstruct("b", "a", MaxNodes)
  \/ \E o \in Objs : CopyAssign("b", o, MaxNodes)
  \/ Destroy("b")
  \/ \E c \in Objs, v \in {10, 20} : Push(c, v, 1)
  \/ Return

SpecCopy == Init /\ [][NextCopy]_vars

\* b exists only as a copy of a; then both are changed
NextIndep ==
  \/ NewStack("a")
  \/ NewQueue("a")
  \/ CopyConstruct("b", "a", MaxNodes)
  \/ CopyAssign("b", "a", MaxNodes)
  \/ Destroy("b")
  \/ \E c \in Objs : Push(c, 10, 1)
  \/ \E c \in Objs : Pop(c)
  \/ \E c \in Objs : Clear(c)
  \/ \E c \in Objs, k \in 0..1 : Write(c, k, 30)
  \/ Return

SpecIndep == Init /\ [][NextIndep]_vars

\* two objects, built by pushes; a is moved into b and popped afterwards
NextMove ==
  \/ \E c \in Objs : NewStack(c)
  \/ \E c \in Objs : NewQueue(c)
  \/ MoveConstruct("b", "a")
  \/ \E o \in Objs : MoveAssign("b", o)
  \/ Destroy("b")
  \/ \E v \in {10, 20} : Push("a", v, 1)
  \/ Push("b", 30, 1)
  \/ Pop("a")
  \/ Return

SpecMove == Init /\ [][NextMove]_vars

\* one object, written through a mutable iterator and read in every way
NextWrite ==
  \/ NewStack("a")
  \/ NewQueue("a")
  \/ \E v \in {10, 20} : Push("a", v, 1)
  \/ Pop("a")
  \/ \E k \in 0..(MaxNodes - 1) : Write("a", k, 30)
  \/ \E alias \in BOOLEAN : GetFront("a", alias)
  \/ \E f \in Flavours : ForEach("a", f)
  \/ Serialize("a", Writable)
  \/ Return

SpecWrite == Init /\ [][NextWrite]_vars

\* one object, serialized to every stream
NextIO ==
  \/ NewStack("a")
  \/ NewQueue("a")
  \/ \E v \in {10, 20}, b \in 0..1 : Push("a", v, b)
  \/ Pop("a")
  \/ \E os \in OutStreams : Serialize("a", os)
  \/ Return

SpecIO == Init /\ [][NextIO]_vars

\* one object, deserialized from every stream, the allocations failing at
\* once, after one, after two or not at all
NextRead ==
  \/ NewStack("a")
  \/ NewQueue("a")
  \/ Push("a", 10, 1)
  \/ Pop("a")
  \/ \E is \in Streams, b \in {0, 1, 2, MaxNodes} : Read("a", is, b)
  \/ Return

SpecRead == Init /\ [][NextRead]_vars

\* object a serialized to a stringstream from which object b is deserialized
NextTrip ==
  \/ \E c \in Objs : NewStack(c)
  \/ \E c \in Objs : NewQueue(c)
  \/ \E c \in Objs : Destroy(c)
  \/ \E v \in {10, 20} : Push("a", v, 1)
  \/ Pop("a")
  \/ Clear("b")
  \/ RoundTrip("a", "b")
  \/ Return

SpecTrip == Init /\ [][NextTrip]_vars

\* two objects of either kind, assigned through the fwd_container interface
NextAssign ==
  \/ \E c \in Objs : NewStack(c)
  \/ \E c \in Objs : NewQueue(c)
  \/ \E c \in Objs : Destroy(c)
  \/ \E v \in {10, 20} : Push("a", v, 1)
  \/ Push("b", 30, 1)
  \/ \E c \in Objs, o \in Objs : Assign(c, o, MaxNodes)
  \/ Return

SpecAssign == Init /\ [][NextAssign]_vars

\* two objects of either kind, the cursors of a compared with its own and
\* with those of b, at the first positions and at the end
NextCompare ==
  \/ \E c \in Objs : NewStack(c)
  \/ \E c \in Objs : NewQueue(c)
  \/ \E c \in Objs : Destroy(c)
  \/ \E c \in Objs : Push(c, 10, 1)
  \/ \E c \in Objs : Pop(c)
  \/ \E d \in Objs, fc \in {"mutable", "const"}, fd \in {"mutable", "const"},
        kc \in 0..2, kd \in 0..2 : Compare("a", fc, kc, d, fd, kd)
  \/ Return

SpecCompare == Init /\ [][NextCompare]_vars

\* container a built by pushes and an empty container b, and two handle
\* objects over them that are constructed, copied, moved, converted, assigned, advanced, compared
\* and destroyed
NextIter ==
  \/ \E c \in Objs : NewStack(c)
  \/ \E c \in Objs : NewQueue(c)
  \/ Push("a", 10, 1)
  \/ \E h \in Its, c \in Objs, f \in {"mutable", "c"}, e \in BOOLEAN :
        ItBegin(h, c, f, e)
  \/ \E h \in Its, t \in {"iterator", "const_iterator"} : ItDefault(h, t)
  \/ \E h \in Its, g \in Its : ItCopyConstruct(h, g)
  \/ \E h \in Its, g \in Its : ItMoveConstruct(h, g)
  \/ \E h \in Its, g \in Its : ItConvertConstruct(h, g)
  \/ \E h \in Its, g \in Its : ItCopyAssign(h, g)
  \/ \E h \in Its, g \in Its : ItMoveAssign(h, g)
  \/ \E h \in Its, g \in Its : ItConvertAssign(h, g)
  \/ \E h \in Its, c \in Objs, f \in {"mutable", "c"}, e \in BOOLEAN :
        ItAssignBegin(h, c, f, e)
  \/ \E h \in Its : ItInc(h)
  \/ \E h \in Its, g \in Its : ItPostInc(g, h)
  \/ \E h \in Its, g \in Its : ItCompare(h, g)
  \/ \E h \in Its : ItDestroy(h)
  \/ Return

SpecIter == Init /\ [][NextIter]_vars

\* two objects, built by pushes and copied, with every number of
\* allocations that succeed before the heap gives nothing
NextFail ==
  \/ \E c \in Objs : NewStack(c)
  \/ \E c \in Objs : NewQueue(c)
  \/ \E b \in Budgets : CopyConstruct("b", "a", b)
  \/ \E o \in Objs, b \in Budgets : CopyAssign("b", o, b)
  \/ Destroy("b")
  \/ \E c \in Objs, v \in {10, 20}, b \in 0..1 : Push(c, v, b)
  \/ Return

SpecFail == Init /\ [][NextFail]_vars

\* one object, built by pushes and pops and walked from begin() to end()
NextWalk ==
  \/ NewStack("a")
  \/ NewQueue("a")
  \/ \E v \in {10, 20} : Push("a", v, 1)
  \/ Pop("a")
  \/ \E f \in Flavours : ForEach("a", f)
  \/ Return

SpecWalk == Init /\ [][NextWalk]_vars

\* one object, built by pushes and pops and assigned to itself
NextSelf ==
  \/ NewStack("a")
  \/ NewQueue("a")
  \/ \E v \in {10, 20} : Push("a", v, 1)
  \/ Pop("a")
  \/ \E b \in {0, MaxNodes} : CopyAssign("a", "a", b)
  \/ MoveAssign("a", "a")
  \/ \E b \in {0, MaxNodes} : Assign("a", "a", b)
  \/ Return

SpecSelf == Init /\ [][NextSelf]_vars

\* two containers that are filled, popped, cleared and destroyed
NextClear ==
  \/ \E c \in Objs : NewStack(c)
  \/ \E c \in Objs : NewQueue(c)
  \/ \E c \in Objs : Push(c, 10, 1)
  \/ Push("a", 20, 1)
  \/ Pop("a")
  \/ \E c \in Objs : Clear(c)
  \/ \E c \in Objs : Destroy(c)
  \/ Return

SpecClear == Init /\ [][NextClear]_vars

\* ------------------------------------------------------------ properties
\* the memory as it stands, for the const members
Cur == Mem(0)

\* the call just made on c
Did(op, c) == last.op = op /\ last.obj = c
DidOk(op, c) == Did(op, c) /\ last.exc = "none"

\* what the calls of the caller see
SizeOf(c) == size(Cur, c)
Empty(c) == is_empty(Cur, c)
NextPop(c) == pop(Cur, c)
Elems(c) == for_range(Cur, c, "c")

Heap == <<live, data, next, kind, topNode, stackSize, frontNode, rearNode,
          queueSize>>

Vals(s) == [i \in 1..Len(s) |-> s[i].val]
Reverse(s) == [i \in 1..Len(s) |-> s[Len(s) + 1 - i]]

\* C1: a successful pop() on a Stack returns the value of the most recently
\* pushed element that was not yet popped, and takes exactly that element
\* out of the pushed-and-not-popped elements.
C1_StackLifo ==
  [][\A c \in Objs :
       (kind[c] = "Stack" /\ DidOk("pop", c)') =>
         /\ log[c] # <<>>
         /\ last'.ret = log[c][Len(log[c])].val
         /\ log'[c] = SubSeq(log[c], 1, Len(log[c]) - 1)]_vars

\* three pushes of different values, then a pop of the last one pushed
C1_Witness ==
  /\ kind["a"] = "Stack" /\ DidOk("pop", "a") /\ last.ret = 30
  /\ Vals(log["a"]) = <<10, 20>>

\* C2: a successful pop() on a Queue returns the value of the oldest pushed
\* element that was not yet popped, and takes exactly that element out of
\* the pushed-and-not-popped elements.
C2_QueueFifo ==
  [][\A c \in Objs :
       (kind[c] = "Queue" /\ DidOk("pop", c)') =>
         /\ log[c] # <<>>
         /\ last'.ret = log[c][1].val
         /\ log'[c] = Tail(log[c])]_vars

C2_Witness ==
  /\ kind["a"] = "Queue" /\ DidOk("pop", "a") /\ last.ret = 10
  /\ Vals(log["a"]) = <<20, 30>>

\* C3: a container starts with size() = 0, every successful push raises
\* size() by one and every successful pop lowers it by one, so that after n
\* pushes and k pops size() = n - k.
C3_SizeCounts ==
  [][\A c \in Objs :
       /\ (DidOk("Stack", c)' \/ DidOk("Queue", c)') => SizeOf(c)' = 0
       /\ DidOk("push", c)' => SizeOf(c)' = SizeOf(c) + 1
       /\ DidOk("pop", c)' => SizeOf(c)' = SizeOf(c) - 1]_vars

\* a pop that leaves two of three pushed elements, on either class
C3_Witness ==
  /\ DidOk("pop", "a") /\ SizeOf("a") = 2 /\ Len(log["a"]) = 2
  /\ kind["a"] = "Queue"

\* C4: pop() on an empty Stack or Queue throws the runtime_error "Cannot
\* pop: ... is empty" and changes nothing: size() stays 0, the chain stays
\* empty, frontNode and rearNode of a Queue stay null.
C4_PopEmpty ==
  [][\A c \in Objs :
       (Empty(c) /\ Did("pop", c)') =>
         /\ last'.exc = "runtime_error"
         /\ last'.what = <<IF kind[c] = "Stack" THEN "Cannot pop: Stack is empty"
                                               ELSE "Cannot pop: Queue is empty">>
         /\ UNCHANGED Heap
         /\ SizeOf(c)' = 0 /\ Empty(c)'
         /\ kind[c] = "Queue" => frontNode'[c] = Null /\ rearNode'[c] = Null]_vars

\* a pop that failed on a queue without nodes
C4_Witness ==
  /\ kind["a"] = "Queue" /\ Did("pop", "a") /\ last.exc = "runtime_error"
  /\ queueSize["a"] = 0 /\ live = {}

\* C5: get_front(), top() and front() throw the runtime_error "Cannot get
\* ... data: ... is empty" on an empty container; on a non-empty one they
\* yield the value the next pop() returns and change neither size nor chain.
C5_GetFront ==
  [][\A c \in Objs :
       Did("get_front", c)' =>
         /\ UNCHANGED Heap
         /\ IF Empty(c)
              THEN /\ last'.exc = "runtime_error"
                   /\ last'.what =
                        <<IF kind[c] = "Stack"
                            THEN "Cannot get top data: Stack is empty"
                            ELSE "Cannot get front data: Queue is empty">>
              ELSE /\ last'.exc = "none"
                   /\ NextPop(c)'.exc = "none"
                   /\ last'.ret = NextPop(c)'.ret]_vars

\* get_front on a stack of two different values
C5_Witness ==
  /\ kind["a"] = "Stack" /\ DidOk("get_front", "a") /\ last.ret = 20
  /\ Elems("a") = <<20, 10>>

\* the nodes of c, from its head along the next links
ChainOf(c) ==
  Chain(Cur, IF kind[c] = "Stack" THEN topNode[c] ELSE frontNode[c],
        MaxNodes + 1)

NoRepeat(s) == \A i, j \in 1..Len(s) : s[i] = s[j] => i = j

\* C6: in every reachable state the chain of every Stack and Queue is
\* acyclic (no node twice, every node allocated, ending in null), has
\* size() nodes, and size() = 0 exactly when is_empty() is true, exactly
\* when pop() fails and exactly when get_front() fails.
C6_WellFormed ==
  \A c \in Objs :
    kind[c] # "none" =>
      LET ch == ChainOf(c) IN
      /\ NoRepeat(ch)
      /\ \A i \in 1..Len(ch) : ch[i] \in live
      /\ Len(ch) = SizeOf(c)
      /\ (SizeOf(c) = 0) <=> Empty(c)
      /\ Empty(c) <=> (NextPop(c).exc # "none")
      /\ Empty(c) <=> (get_front(Cur, c).exc # "none")

\* a read that failed and left a stack of two elements
C6_Witness ==
  /\ kind["a"] = "Stack" /\ Did("read", "a") /\ last.exc = "runtime_error"
  /\ SizeOf("a") = 2 /\ Len(ChainOf("a")) = 2

\* C7: in every reachable state of a Queue frontNode is null exactly when
\* rearNode is null, and a rearNode that is not null is the last node of
\* the chain from frontNode and has a null next link.
C7_QueueRear ==
  \A c \in Objs :
    kind[c] = "Queue" =>
      LET ch == ChainOf(c) IN
      /\ (frontNode[c] = Null) <=> (rearNode[c] = Null)
      /\ rearNode[c] # Null =>
            /\ ch # <<>>
            /\ ch[Len(ch)] = rearNode[c]
            /\ next[rearNode[c]] = Null

\* the pop that takes the only element of a queue
C7_Witness ==
  /\ kind["a"] = "Queue" /\ DidOk("pop", "a") /\ last.ret = 10
  /\ frontNode["a"] = Null /\ rearNode["a"] = Null

\* C8: iterating a Stack from begin() to end(), with the mutable, the const
\* or the cbegin()/cend() cursors, yields the pushed-and-not-popped values,
\* the most recently pushed first.
C8_StackIteration ==
  \A c \in Objs :
    kind[c] = "Stack" =>
      /\ \A f \in Flavours : for_range(Cur, c, f) = Reverse(Vals(log[c]))
      /\ Did("for", c) => last.ret = Reverse(Vals(log[c]))

\* push 10, 20, 30 and iterate
C8_Witness ==
  /\ kind["a"] = "Stack" /\ Did("for", "a") /\ last.ret = <<30, 20, 10>>
  /\ Vals(log["a"]) = <<10, 20, 30>>

\* C9: iterating a Queue from begin() to end(), with the mutable, the const
\* or the cbegin()/cend() cursors obtained through the fwd_container
\* interface, yields the pushed-and-not-popped values, the oldest first.
C9_QueueIteration ==
  \A c \in Objs :
    kind[c] = "Queue" =>
      /\ \A f \in Flavours : for_range(Cur, c, f) = Vals(log[c])
      /\ Did("for", c) => last.ret = Vals(log[c])

C9_Witness ==
  /\ kind["a"] = "Queue" /\ Did("for", "a") /\ last.ret = <<10, 20, 30>>
  /\ Vals(log["a"]) = <<10, 20, 30>>

\* the copy made by the call just returned: target and source
IsCopy(c, o) ==
  /\ last.op \in {"copy_ctor", "copy_assign"}
  /\ last.obj = c /\ last.src = o /\ last.exc = "none"

\* C10: a copy construction or copy assignment that returns makes the
\* target's element sequence and size equal to the source's, deletes the
\* nodes the target held before, and leaves the source's nodes, sequence
\* and size as they were.
C10_Copy ==
  [][\A c \in Objs, o \in Objs :
       IsCopy(c, o)' =>
         /\ Elems(c)' = Elems(o)
         /\ SizeOf(c)' = SizeOf(o)
         /\ Elems(o)' = Elems(o)
         /\ SizeOf(o)' = SizeOf(o)
         /\ ChainOf(o)' = ChainOf(o)
         /\ c # o =>
               /\ \A i \in 1..Len(ChainOf(c)) : ChainOf(c)[i] \notin live'
                                                   \/ ChainOf(c)[i] \in
                                                        {ChainOf(c)'[j] : j \in 1..Len(ChainOf(c)')}
               /\ Cardinality(live') =
                    Cardinality(live) - Len(ChainOf(c)) + SizeOf(o)]_vars

\* a copy assignment of a two-element queue to a queue that held another
\* element
C10_Witness ==
  /\ IsCopy("b", "a") /\ last.op = "copy_assign" /\ kind["b"] = "Queue"
  /\ Elems("b") = <<10, 20>> /\ Elems("a") = <<10, 20>>
  /\ SizeOf("b") = 2 /\ Cardinality(live) = 4

NodesOf(c) == LET ch == ChainOf(c) IN {ch[i] : i \in 1..Len(ch)}

\* no node is in the chains of two objects
Disjoint ==
  \A c \in Objs, o \in Objs :
    (c # o /\ kind[c] # "none" /\ kind[o] # "none") =>
      NodesOf(c) \cap NodesOf(o) = {}

\* the data of the nodes of c, in chain order
ValsOf(c) == LET ch == ChainOf(c) IN [i \in 1..Len(ch) |-> data[ch[i]]]

\* iteration visits the data of the chain, node by node
IteratesChain == \A c \in Objs : kind[c] # "none" => Elems(c) = ValsOf(c)

\* C11: a copy and its source share no node, and a push, pop, clear or
\* write through an iterator on one of them leaves the nodes, the element
\* sequence (what iteration visits) and the size of the other as they were.
C11_CopyIndependent ==
  /\ []IteratesChain
  /\ []Disjoint
  /\ [][\A c \in Objs, o \in Objs :
          (/\ c # o /\ kind[o] # "none"
           /\ last'.obj = c
           /\ last'.op \in {"push", "pop", "clear", "write"}) =>
            /\ ChainOf(o)' = ChainOf(o)
            /\ ValsOf(o)' = ValsOf(o)
            /\ SizeOf(o)' = SizeOf(o)]_vars

\* the copy b of the stack a got 30 written on its top; a is as it was
C11_Witness ==
  /\ kind["a"] = "Stack" /\ kind["b"] = "Stack" /\ Did("write", "b")
  /\ Elems("b") = <<30, 10>> /\ Elems("a") = <<10, 10>>

\* the move made by the call just returned: target and source
IsMove(c, o) ==
  /\ last.op \in {"move_ctor", "move_assign"}
  /\ last.obj = c /\ last.src = o

\* C12: move construction and move assignment from another object give the
\* target the source's former nodes, element sequence and size and leave
\* the source empty: size() = 0, is_empty() true, pop() fails with the
\* "is empty" error.
C12_Move ==
  /\ []IteratesChain
  /\ [][\A c \in Objs, o \in Objs :
          (c # o /\ IsMove(c, o)') =>
            /\ last'.exc = "none"
            /\ ChainOf(c)' = ChainOf(o)
            /\ ValsOf(c)' = ValsOf(o)
            /\ SizeOf(c)' = SizeOf(o)
            /\ SizeOf(o)' = 0
            /\ Empty(o)'
            /\ ChainOf(o)' = <<>>
            /\ NextPop(o)'.exc = "runtime_error"
            /\ NextPop(o)'.what \in {<<"Cannot pop: Stack is empty">>,
                                     <<"Cannot pop: Queue is empty">>}]_vars

\* a queue of 10, 20 was move-assigned from a to b, which held something
C12_Witness ==
  /\ IsMove("b", "a") /\ last.op = "move_assign" /\ kind["b"] = "Queue"
  /\ Elems("b") = <<10, 20>> /\ SizeOf("b") = 2
  /\ SizeOf("a") = 0 /\ Empty("a") /\ 1 \notin live

\* the values vals written with one " " between neighbours
RECURSIVE Join(_)
Join(vals) ==
  IF Len(vals) <= 1 THEN vals
  ELSE <<Head(vals), Sp>> \o Join(Tail(vals))

\* the text that serializing c to a writable stream produces
TextOf(c) == print([Cur EXCEPT !.os = Writable], c).os.text

\* every way of reading c observes the data stored in its nodes
ReadsSeeData(c) ==
  LET vs == ValsOf(c) IN
  /\ \A f \in Flavours : for_range(Cur, c, f) = vs
  /\ TextOf(c) = Join(vs)
  /\ vs # <<>> =>
       /\ get_front(Cur, c).ret = vs[1]
       /\ NextPop(c).ret = vs[1]
  /\ Did("for", c) => last.ret = vs
  /\ DidOk("print", c) => last.ret.text = Join(vs)
  /\ DidOk("get_front", c) => last.ret = vs[1]

\* C13: a write through a mutable iterator on the element at position k
\* changes the data of that node only (chain, other elements and size stay),
\* and every read (iteration of each flavour, get_front, pop,
\* serialization) observes the data of the nodes, hence the written value.
C13_WriteThrough ==
  /\ [](\A c \in Objs : kind[c] # "none" => ReadsSeeData(c))
  /\ [][\A c \in Objs :
          Did("write", c)' =>
            /\ ChainOf(c)' = ChainOf(c)
            /\ SizeOf(c)' = SizeOf(c)
            /\ ValsOf(c)' =
                 [ValsOf(c) EXCEPT ![last'.ret[1] + 1] = last'.ret[2]]]_vars

\* 30 was written on the middle element of a stack and iteration sees it
C13_Witness ==
  /\ kind["a"] = "Stack" /\ Did("for", "a") /\ last.ret = <<20, 30, 10>>

\* C14: a serialization that succeeds has written the elements in iteration
\* order with exactly one " " between neighbours, nothing before the first,
\* nothing after the last and nothing at all for an empty container; it
\* leaves the stream good and the container as it was.
C14_Serialize ==
  /\ [](\A c \in Objs :
          DidOk("print", c) =>
            /\ last.ret.text = Join(Elems(c))
            /\ last.ret.state = {})
  /\ [][\A c \in Objs : Did("print", c)' => UNCHANGED Heap]_vars

\* the stack 20, 20, 10 was written as "20 20 10"
C14_Witness ==
  /\ kind["a"] = "Stack" /\ DidOk("print", "a")
  /\ last.ret.text = <<20, Sp, 20, Sp, 10>>
  /\ Elems("a") = <<20, 20, 10>>

\* C15: a deserialization that succeeds has pushed every token of the input,
\* in input order, onto the elements the container already had: the old
\* nodes stay, size() grows by the number of tokens, a Stack has the tokens
\* in reverse input order above its old elements and a Queue has them in
\* input order behind its old elements; the stream is left good.
C15_ReadExtends ==
  /\ []IteratesChain
  /\ [][\A c \in Objs :
          DidOk("read", c)' =>
            LET toks == last'.ret.input.buf IN
            /\ last'.ret.state = {}
            /\ SizeOf(c)' = SizeOf(c) + Len(toks)
            /\ IF kind[c] = "Stack"
                 THEN /\ ValsOf(c)' = Reverse(toks) \o ValsOf(c)
                      /\ ChainOf(c) = SubSeq(ChainOf(c)', Len(toks) + 1,
                                                          Len(ChainOf(c)'))
                 ELSE /\ ValsOf(c)' = ValsOf(c) \o toks
                      /\ ChainOf(c) = SubSeq(ChainOf(c)', 1, Len(ChainOf(c)))]_vars

\* "10 20 30" was read into an empty stack, which iterates 30, 20, 10
C15_Witness ==
  /\ kind["a"] = "Stack" /\ DidOk("read", "a")
  /\ last.ret.input.buf = <<10, 20, 30>>
  /\ Elems("a") = <<30, 20, 10>>

\* "20 10" was read into a queue that held 10
C15_WitnessQueue ==
  /\ kind["a"] = "Queue" /\ DidOk("read", "a")
  /\ last.ret.input.buf = <<20, 10>>
  /\ Elems("a") = <<10, 20, 10>>

\* ss << c; ss >> d; was just done, with both of the given kind, d empty
\* before it, and the read returning normally
Tripped(c, d, k) ==
  /\ kind[c] = k /\ kind[d] = k
  /\ SizeOf(d) = 0
  /\ last'.op = "print_read" /\ last'.obj = d /\ last'.src = c
  /\ last'.exc = "none"

\* C16 as stated: serializing a Stack and deserializing the text into an
\* empty Stack yields a Stack that iterates the same sequence in the same
\* order.
C16_RoundTripSame ==
  [][Tripped("a", "b", "Stack") => ValsOf("b")' = ValsOf("a")']_vars

\* C16: serializing a Stack and deserializing the text into an empty Stack
\* leaves the original as it was and yields a Stack that iterates the
\* original's sequence in reverse order, the text being the original's
\* elements in iteration order.
C16_RoundTripReverses ==
  /\ []IteratesChain
  /\ [][Tripped("a", "b", "Stack") =>
          /\ last'.ret = Join(ValsOf("a"))
          /\ ValsOf("a")' = ValsOf("a") /\ ChainOf("a")' = ChainOf("a")
          /\ SizeOf("b")' = SizeOf("a")
          /\ ValsOf("b")' = Reverse(ValsOf("a"))]_vars

\* the stack 20, 10 went through the text "20 10" and came back as 10, 20
C16_Witness ==
  /\ kind["a"] = "Stack" /\ kind["b"] = "Stack"
  /\ DidOk("print_read", "b") /\ last.src = "a"
  /\ last.ret = <<20, Sp, 10>>
  /\ Elems("a") = <<20, 10>>
  /\ Elems("b") = <<10, 20>>

\* C17: serializing a Queue and deserializing the text into an empty Queue
\* leaves the original as it was and yields a Queue that iterates the same
\* sequence in the same order.
C17_RoundTripQueue ==
  /\ []IteratesChain
  /\ [][Tripped("a", "b", "Queue") =>
          /\ ValsOf("a")' = ValsOf("a") /\ ChainOf("a")' = ChainOf("a")
          /\ SizeOf("b")' = SizeOf("a")
          /\ ValsOf("b")' = ValsOf("a")]_vars

\* the queue 10, 20 went through the text "10 20" and came back as 10, 20
C17_Witness ==
  /\ kind["a"] = "Queue" /\ kind["b"] = "Queue"
  /\ DidOk("print_read", "b") /\ last.src = "a"
  /\ last.ret = <<10, Sp, 20>>
  /\ Elems("a") = <<10, 20>>
  /\ Elems("b") = <<10, 20>>

\* C18: a deserialization from a stream that is unusable before the read,
\* or whose text holds a token that does not parse, ends with an error; and
\* whenever a deserialization ends with an error, whatever its cause, the
\* caller gets a std::runtime_error that names the failed input, the stream
\* has failbit set, and the container has the element sequence and the
\* size it had before the call.
C18_ReadRollsBack ==
  /\ []IteratesChain
  /\ [][\A c \in Objs :
          Did("read", c)' =>
            LET is == last'.ret.input IN
            /\ (is.state # {} \/ \E i \in 1..Len(is.buf) : is.buf[i] = BadToken)
                 => last'.exc # "none"
            /\ last'.exc # "none" =>
                 /\ last'.exc = "runtime_error"
                 /\ Head(last'.what) \in {"Stack input failed: ",
                                          "Queue input failed: "}
                 /\ "failbit" \in last'.ret.state
                 /\ ValsOf(c)' = ValsOf(c)
                 /\ SizeOf(c)' = SizeOf(c)
                 /\ kind' = kind]_vars

\* "10 ?" was read into the stack holding 10: the 10 was pushed, the
\* second token failed to parse, and the stack holds 10 alone again
C18_Witness ==
  /\ kind["a"] = "Stack" /\ Did("read", "a")
  /\ last.ret.input.buf = <<10, BadToken>>
  /\ last.exc = "runtime_error"
  /\ last.what = <<"Stack input failed: ", "Failed to parse input data">>
  /\ Elems("a") = <<10>> /\ SizeOf("a") = 1

\* the call just made left the memory, the exception and its message of m
LeftAs(m) ==
  /\ Heap' = <<m.live, m.data, m.next, m.kind, m.topNode, m.stackSize,
               m.frontNode, m.rearNode, m.queueSize>>
  /\ log' = m.log
  /\ last'.exc = m.exc /\ last'.what = m.what

\* C19: an assignment through the fwd_container interface whose source is
\* of the target's kind does what the copy assignment of that kind does,
\* and on returning has given the target the source's element sequence and
\* size and left the source alone; one whose source is of the other kind
\* throws std::bad_cast and changes nothing.
C19_GenericAssign ==
  /\ []IteratesChain
  /\ [][\A c \in Objs, o \in Objs :
          (last'.op = "assign" /\ last'.obj = c /\ last'.src = o) =>
            IF kind[o] = kind[c]
              THEN /\ last'.exc # "bad_cast"
                   /\ LeftAs(IF kind[c] = "Stack"
                               THEN Stack_copy_assign(Mem(MaxNodes), c, o)
                               ELSE Queue_copy_assign(Mem(MaxNodes), c, o))
                   /\ last'.exc = "none" =>
                        /\ ValsOf(c)' = ValsOf(o)
                        /\ SizeOf(c)' = SizeOf(o)
                        /\ ValsOf(o)' = ValsOf(o)
                        /\ ChainOf(o)' = ChainOf(o)
              ELSE /\ last'.exc = "bad_cast"
                   /\ UNCHANGED Heap]_vars

\* the queue b, holding 30, was assigned to the stack a, holding 20, 10:
\* std::bad_cast, and both are as they were
C19_Witness ==
  /\ kind["a"] = "Stack" /\ kind["b"] = "Queue"
  /\ Did("assign", "a") /\ last.src = "b" /\ last.exc = "bad_cast"
  /\ Elems("a") = <<20, 10>> /\ Elems("b") = <<30>>

\* the stack a, holding 20, 10, was assigned to the stack b, which held 30
C19_WitnessSame ==
  /\ kind["a"] = "Stack" /\ kind["b"] = "Stack"
  /\ DidOk("assign", "b") /\ last.src = "a"
  /\ Elems("a") = <<20, 10>> /\ Elems("b") = <<20, 10>>
  /\ Cardinality(live) = 4

\* C20: a cursor of a Stack and a cursor of a Queue, each mutable or
\* read-only and each at any position from begin() to end(), compare
\* not-equal with either as the left operand, and the comparison throws
\* nothing; so do the two end() cursors, which both hold the null position.
C20_CrossKind ==
  /\ \A c \in Objs, d \in Objs :
       (kind[c] = "Stack" /\ kind[d] = "Queue") =>
         \A fc \in Flavours, fd \in Flavours,
            kc \in 0..SizeOf(c), kd \in 0..SizeOf(d) :
           /\ ~handle_eq(advance(Cur, begin(Cur, c, fc), kc),
                         advance(Cur, begin(Cur, d, fd), kd))
           /\ ~handle_eq(advance(Cur, begin(Cur, d, fd), kd),
                         advance(Cur, begin(Cur, c, fc), kc))
           /\ ~handle_eq(end(Cur, c, fc), end(Cur, d, fd))
           /\ ~handle_eq(end(Cur, d, fd), end(Cur, c, fc))
  /\ \A c \in Objs :
       (Did("compare", c) /\ kind[c] # kind[last.src]) =>
         /\ last.exc = "none"
         /\ last.ret.eq = <<FALSE, FALSE>>

\* the end of a Stack and the end of a Queue, both the null position, were
\* compared in both orders: not equal
C20_Witness ==
  /\ kind["a"] = "Stack" /\ kind["b"] = "Queue"
  /\ SizeOf("a") = 1 /\ SizeOf("b") = 1
  /\ DidOk("compare", "a") /\ last.src = "b"
  /\ last.ret.at = <<Null, Null>>
  /\ last.ret.eq = <<FALSE, FALSE>>

\* two cursors of one Queue on the same node were compared: equal
C20_WitnessSame ==
  /\ kind["a"] = "Queue"
  /\ DidOk("compare", "a") /\ last.src = "a"
  /\ last.ret.at[1] # Null /\ last.ret.at[1] = last.ret.at[2]
  /\ last.ret.eq = <<TRUE, TRUE>>
\* the handle object h is constructed and holds a cursor
Holds(h) == handles[h].type # "none" /\ handles[h].ptr # Null

\* the cursor that h holds, and the node it is positioned at
CursorOf(h) == cursors[handles[h].ptr]
PosOf(h) == CursorOf(h).current

\* the cursors of h and g belong to containers of one kind
SameKind(h, g) ==
  (CursorOf(h).cls \in StackCursors) = (CursorOf(g).cls \in StackCursors)

\* C21: for two handle objects that hold cursors of one container kind, of
\* the same or of different flavours, == in either operand order is true
\* exactly when the two cursors are at the same node or both at the end,
\* and != is the negation of ==; so are the results of the comparisons the
\* program makes.
C21_SameKindEq ==
  \A h \in Its, g \in Its :
    (Holds(h) /\ Holds(g) /\ SameKind(h, g)) =>
      /\ handle_eq(HandleAt(Cur, h), HandleAt(Cur, g)) = (PosOf(h) = PosOf(g))
      /\ handle_neq(HandleAt(Cur, h), HandleAt(Cur, g)) = (PosOf(h) # PosOf(g))
      /\ (Did("it_compare", h) /\ last.src = g) =>
            /\ last.exc = "none"
            /\ last.ret.eq = <<PosOf(h) = PosOf(g), PosOf(h) = PosOf(g)>>
            /\ last.ret.neq = <<PosOf(h) # PosOf(g), PosOf(h) # PosOf(g)>>

\* an iterator and a const_iterator on the second node of the stack a were
\* compared: equal in both orders
C21_Witness ==
  /\ kind["a"] = "Stack" /\ SizeOf("a") = 2
  /\ Holds("it") /\ Holds("jt")
  /\ handles["it"].type = "iterator" /\ handles["jt"].type = "const_iterator"
  /\ PosOf("it") = ChainOf("a")[2] /\ PosOf("jt") = PosOf("it")
  /\ Did("it_compare", "it") /\ last.src = "jt"
  /\ last.ret.eq = <<TRUE, TRUE>> /\ last.ret.neq = <<FALSE, FALSE>>

\* two const_iterators of the queue a on different nodes were compared
C21_WitnessDiffer ==
  /\ kind["a"] = "Queue"
  /\ Holds("it") /\ Holds("jt")
  /\ handles["it"].type = "const_iterator" /\ handles["jt"].type = "const_iterator"
  /\ PosOf("it") # Null /\ PosOf("jt") # Null /\ PosOf("jt") # PosOf("it")
  /\ Did("it_compare", "it") /\ last.src = "jt"
  /\ last.ret.eq = <<FALSE, FALSE>> /\ last.ret.neq = <<TRUE, TRUE>>

\* every cursor that a handle object points to is allocated, and no cursor
\* is pointed to by two handle objects
Owned ==
  \A h \in AllIts :
    handles[h].ptr # Null =>
      /\ cursors[handles[h].ptr] # NoCursor
      /\ \A g \in AllIts : handles[g].ptr = handles[h].ptr => g = h

\* the calls on a handle object that have no other handle object to change
OneHandleOps ==
  {"it_begin", "it_default", "it_copy_ctor", "it_convert_ctor",
   "it_copy_assign", "it_convert_assign", "it_assign_begin", "it_inc",
   "it_dtor"}

\* C22: a copy construction or copy assignment of a handle object from
\* another that holds a cursor gives the target a cursor of its own, of the
\* source's class and at the source's position, that compares equal to the
\* source's, and leaves the source as it was; no cursor ever belongs to two
\* handle objects; and constructing, assigning, advancing or destroying one
\* handle object leaves every other handle object and its cursor as they
\* were.
C22_HandleCopy ==
  /\ []Owned
  /\ [][\A h \in Its, g \in Its :
          /\ (last'.op \in {"it_copy_ctor", "it_copy_assign"} /\ last'.obj = h
                /\ last'.src = g /\ h # g /\ handles[g].ptr # Null) =>
               /\ last'.exc = "none"
               /\ handles'[h].type = handles[g].type
               /\ handles'[h].ptr # Null
               /\ handles'[h].ptr # handles'[g].ptr
               /\ cursors'[handles'[h].ptr] = cursors[handles[g].ptr]
               /\ handle_eq(Handle(handles'[h].type = "const_iterator",
                                   cursors'[handles'[h].ptr]),
                            Handle(handles'[g].type = "const_iterator",
                                   cursors'[handles'[g].ptr]))
          /\ (last'.op \in OneHandleOps /\ last'.obj = h /\ g # h) =>
               /\ handles'[g] = handles[g]
               /\ handles[g].ptr # Null =>
                    cursors'[handles[g].ptr] = cursors[handles[g].ptr]]_vars

\* jt was copy-constructed from it, which stands on the second node of the
\* queue a
C22_Witness ==
  /\ kind["a"] = "Queue" /\ SizeOf("a") = 3
  /\ DidOk("it_copy_ctor", "jt") /\ last.src = "it"
  /\ Holds("it") /\ Holds("jt")
  /\ handles["it"].ptr # handles["jt"].ptr
  /\ PosOf("it") = ChainOf("a")[2] /\ PosOf("jt") = ChainOf("a")[2]

\* it was advanced after jt had been made equal to it: jt stays behind
C22_WitnessAdvance ==
  /\ kind["a"] = "Stack" /\ SizeOf("a") = 2
  /\ DidOk("it_inc", "it")
  /\ Holds("it") /\ Holds("jt")
  /\ PosOf("jt") = ChainOf("a")[1] /\ PosOf("it") = ChainOf("a")[2]

\* C23: a move construction or move assignment of a handle object from
\* another gives the target the very cursor the source pointed to, at the
\* position it had, and leaves the source with a null ptr; the cursor the
\* target of a move assignment pointed to before is deleted; and no cursor
\* ever belongs to two handle objects.
C23_HandleMove ==
  /\ [](\A h \in AllIts, g \in AllIts :
          (handles[h].ptr # Null /\ handles[g].ptr = handles[h].ptr) => g = h)
  /\ [][\A h \in Its, g \in Its :
          (last'.op \in {"it_move_ctor", "it_move_assign"} /\ last'.obj = h
            /\ last'.src = g /\ h # g) =>
            /\ last'.exc = "none"
            /\ handles'[h] = handles[g]
            /\ handles'[g] = [type |-> handles[g].type, ptr |-> Null]
            /\ handles[g].ptr # Null =>
                 cursors'[handles[g].ptr] = cursors[handles[g].ptr]
            /\ (handles[h].ptr # Null /\ handles[h].ptr # handles[g].ptr) =>
                 cursors'[handles[h].ptr] = NoCursor]_vars

\* the iterator it, which stood on the second node of the stack a, was
\* move-assigned to jt, which held a cursor of its own
C23_Witness ==
  /\ kind["a"] = "Stack" /\ SizeOf("a") = 2
  /\ DidOk("it_move_assign", "jt") /\ last.src = "it"
  /\ handles["it"] = [type |-> "iterator", ptr |-> Null]
  /\ Holds("jt") /\ PosOf("jt") = ChainOf("a")[2]
  /\ Cardinality({p \in CAddrs : cursors[p] # NoCursor}) = 1

\* the read-only cursor class of the container kind of a mutable cursor class
ConstClass(cls) ==
  IF cls = "stack_iterator" THEN "stack_const_iterator" ELSE "queue_const_iterator"

C24_WitnessAssign ==
  /\ kind["a"] = "Stack" /\ SizeOf("a") = 1
  /\ DidOk("it_convert_assign", "jt") /\ last.src = "it"
  /\ CursorOf("it") = Cursor("stack_iterator", ChainOf("a")[1])
  /\ CursorOf("jt") = Cursor("stack_const_iterator", ChainOf("a")[1])

\* C25: constructing an iterator from a const_iterator, or assigning a
\* const_iterator to an iterator, is rejected: the call ends with an error,
\* the construction leaves no iterator object behind, not even an empty
\* one, and the assignment leaves the iterator as it was.
C25_FromReadOnlyRejected ==
  [][\A h \in Its, g \in Its :
       (last'.op \in {"it_convert_ctor", "it_convert_assign"} /\ last'.obj = h
         /\ last'.src = g /\ handles[g].type = "const_iterator") =>
         /\ last'.exc # "none"
         /\ handles'[h] = handles[h]]_vars

\* C26: g = h++ leaves in g a cursor of its own at the node h stood on
\* before the call and h one node further (or still at the end); ++h moves
\* the cursor of h itself one node further and allocates nothing, so that
\* what it returns, h, is at the new position.
C26_Increment ==
  [][\A h \in Its, g \in Its :
       /\ (last'.op = "it_post_inc" /\ last'.obj = g /\ last'.src = h) =>
            /\ last'.exc = "none"
            /\ handles'[h] = handles[h]
            /\ cursors'[handles[h].ptr] = cursor_inc(Cur, cursors[handles[h].ptr])
            /\ handles'[g].type = handles[h].type
            /\ handles'[g].ptr \notin {Null, handles[h].ptr}
            /\ cursors'[handles'[g].ptr] = cursors[handles[h].ptr]
            /\ handles'["temp"] = NoHandle
       /\ (last'.op = "it_inc" /\ last'.obj = h) =>
            /\ last'.exc = "none"
            /\ handles' = handles
            /\ cursors' = [cursors EXCEPT ![handles[h].ptr] =
                             [@ EXCEPT !.current =
                                IF @ = Null THEN Null ELSE next[@]]]]_vars

\* as in the test: oit = it++ on the stack 10, 10, 10 with it on the second
\* node leaves oit on the second node and it on the third
C26_Witness ==
  /\ kind["a"] = "Stack" /\ SizeOf("a") = 3
  /\ DidOk("it_post_inc", "jt") /\ last.src = "it"
  /\ handles["it"].type = "iterator" /\ handles["jt"].type = "iterator"
  /\ Holds("it") /\ Holds("jt")
  /\ PosOf("jt") = ChainOf("a")[2] /\ PosOf("it") = ChainOf("a")[3]

\* ++cit moved the const_iterator it from the first to the second node of
\* the queue a
C26_WitnessPre ==
  /\ kind["a"] = "Queue" /\ SizeOf("a") = 2
  /\ DidOk("it_inc", "it") /\ handles["it"].type = "const_iterator"
  /\ Holds("it") /\ PosOf("it") = ChainOf("a")[2]
  /\ handles["jt"].type = "none"
  /\ Cardinality({p \in CAddrs : cursors[p] # NoCursor}) = 1

\* the cursor of h is of the cursor classes of the kind of container c
CursorOn(h, c) ==
  (CursorOf(h).cls \in StackCursors) = (kind[c] = "Stack")

\* C27: ++ on a handle object whose cursor, mutable or read-only, of a
\* Stack or a Queue, is at the end throws nothing and leaves the cursor at
\* the end, however often it is repeated; and a cursor at the end compares
\* equal to end() and cend() of a container of its kind, in both orders.
C27_EndStays ==
  /\ [](\A h \in Its, c \in Objs, f \in {"mutable", "c"} :
          (Holds(h) /\ PosOf(h) = Null /\ kind[c] # "none" /\ CursorOn(h, c)) =>
            /\ handle_eq(HandleAt(Cur, h), end(Cur, c, f))
            /\ handle_eq(end(Cur, c, f), HandleAt(Cur, h))
            /\ ~handle_neq(HandleAt(Cur, h), end(Cur, c, f)))
  /\ [][\A h \in Its :
          (last'.op = "it_inc" /\ last'.obj = h /\ PosOf(h) = Null) =>
            /\ last'.exc = "none"
            /\ cursors' = cursors /\ handles' = handles
            /\ cursors'[handles'[h].ptr].current = Null]_vars

\* ++it on an iterator at the end of the queue a, which holds two elements
C27_Witness ==
  /\ kind["a"] = "Queue" /\ SizeOf("a") = 2
  /\ DidOk("it_inc", "it") /\ handles["it"].type = "iterator"
  /\ Holds("it") /\ PosOf("it") = Null
  /\ handles["jt"].type = "const_iterator" /\ Holds("jt") /\ PosOf("jt") = Null

\* the copy of o into c just made ended with an exception
CopyFailed(c, o) ==
  /\ last.op \in {"copy_ctor", "copy_assign"}
  /\ last.obj = c /\ last.src = o /\ last.exc # "none"

\* a copy of o into c meets a failing allocation when only b more succeed:
\* it needs one node for each element of o, after c's own nodes are freed
RunsOut(c, o, b) ==
  \/ b < SizeOf(o)
  \/ Cardinality(Addrs \ live) + Len(ChainOf(c)) < SizeOf(o)

\* the copy the caller can make of o into c: the constructor when c does
\* not exist, the assignment when it does
CopyInto(c, o, b) ==
  IF kind[o] = "Stack"
    THEN IF kind[c] = "none" THEN Stack_copy_ctor(Mem(b), c, o)
                             ELSE Stack_copy_assign(Mem(b), c, o)
    ELSE IF kind[c] = "none" THEN Queue_copy_ctor(Mem(b), c, o)
                             ELSE Queue_copy_assign(Mem(b), c, o)

\* the exception is a runtime_error whose message ends in what
\* std::bad_alloc says
Exhaustion(call) ==
  /\ call.exc = "runtime_error"
  /\ Len(call.what) >= 2
  /\ call.what[Len(call.what)] = "std::bad_alloc"

\* C28: a Stack copy construction or copy assignment in which an allocation
\* fails, at the first node or at a later one, throws a runtime_error that
\* carries the allocation failure; after it every node built for the copy
\* is deleted (only the nodes the target held before are gone from the
\* heap), the target's topNode is null and its size 0 (a target under
\* construction does not come to exist), and the source is untouched.
C28_StackCopyFails ==
  /\ [](\A o \in Objs, b \in Budgets :
          (kind[o] = "Stack" /\ kind["b"] \in {"none", "Stack"} /\ o # "b"
           /\ RunsOut("b", o, b)) =>
            Exhaustion(CopyInto("b", o, b)))
  /\ [][\A c \in Objs, o \in Objs :
          (kind[o] = "Stack" /\ CopyFailed(c, o)') =>
            /\ Exhaustion(last')
            /\ live' = live \ NodesOf(c)
            /\ topNode'[c] = Null /\ stackSize'[c] = 0
            /\ kind'[c] = kind[c]
            /\ topNode'[o] = topNode[o] /\ stackSize'[o] = stackSize[o]
            /\ \A a \in NodesOf(o) : data'[a] = data[a] /\ next'[a] = next[a]]_vars

\* b = a failed where a holds three elements and b held one: b is empty
\* and only a's three nodes are live
C28_Witness ==
  /\ kind["a"] = "Stack" /\ kind["b"] = "Stack"
  /\ CopyFailed("b", "a") /\ last.op = "copy_assign"
  /\ SizeOf("a") = 3 /\ topNode["b"] = Null /\ SizeOf("b") = 0
  /\ Cardinality(live) = 3

\* Stack b(a) failed where a holds two elements: no b, two live nodes
C28_WitnessCtor ==
  /\ kind["a"] = "Stack" /\ kind["b"] = "none"
  /\ CopyFailed("b", "a") /\ last.op = "copy_ctor"
  /\ SizeOf("a") = 2 /\ Cardinality(live) = 2

\* C29: a Queue copy construction or copy assignment in which an allocation
\* fails throws a runtime_error that carries the allocation failure; after
\* it every node built for the copy is deleted (only the nodes the target
\* held before are gone from the heap), the target's frontNode and rearNode
\* are null and its size 0, so that it holds no prefix of the source, and
\* the source is untouched.
C29_QueueCopyFails ==
  /\ [](\A o \in Objs, b \in Budgets :
          (kind[o] = "Queue" /\ kind["b"] \in {"none", "Queue"} /\ o # "b"
           /\ RunsOut("b", o, b)) =>
            Exhaustion(CopyInto("b", o, b)))
  /\ [][\A c \in Objs, o \in Objs :
          (kind[o] = "Queue" /\ CopyFailed(c, o)') =>
            /\ Exhaustion(last')
            /\ live' = live \ NodesOf(c)
            /\ frontNode'[c] = Null /\ rearNode'[c] = Null
            /\ queueSize'[c] = 0
            /\ kind'[c] = kind[c]
            /\ frontNode'[o] = frontNode[o] /\ rearNode'[o] = rearNode[o]
            /\ queueSize'[o] = queueSize[o]
            /\ \A a \in NodesOf(o) : data'[a] = data[a] /\ next'[a] = next[a]]_vars

\* C30: push on a Stack or a Queue throws exactly when its allocation
\* fails; then it throws a runtime_error that carries the allocation
\* failure and leaves every chain, size, topNode, frontNode and rearNode as
\* it was. Otherwise it allocates exactly one node, holding the pushed
\* value, which becomes the first node of a Stack's chain, before the old
\* chain, or the last node of a Queue's chain and its rearNode, and size is
\* one more; the other nodes and the other object are untouched.
C30_Push ==
  /\ [](\A c \in Objs, v \in {10, 20}, b \in 0..1 :
          kind[c] # "none" =>
            LET p == push(Mem(b), c, v) IN
            /\ (p.exc # "none") <=> (b = 0 \/ live = Addrs)
            /\ p.exc # "none" => Exhaustion(p))
  /\ [][\A c \in Objs :
          Did("push", c)' =>
            IF last'.exc # "none"
              THEN Exhaustion(last') /\ UNCHANGED Heap
              ELSE \E a \in Addrs \ live :
                     /\ live' = live \cup {a}
                     /\ data'[a] = log'[c][Len(log'[c])].val
                     /\ \A x \in live : data'[x] = data[x]
                     /\ SizeOf(c)' = SizeOf(c) + 1
                     /\ IF kind[c] = "Stack"
                          THEN /\ topNode'[c] = a
                               /\ ChainOf(c)' = <<a>> \o ChainOf(c)
                          ELSE /\ rearNode'[c] = a /\ next'[a] = Null
                               /\ ChainOf(c)' = Append(ChainOf(c), a)
                     /\ \A o \in Objs \ {c} :
                          /\ ChainOf(o)' = ChainOf(o)
                          /\ kind'[o] = kind[o]
                          /\ kind[o] # "none" => SizeOf(o)' = SizeOf(o)]_vars

\* a push that failed on the queue a of two elements, which it still holds
C30_Witness ==
  /\ kind["a"] = "Queue" /\ Did("push", "a") /\ Exhaustion(last)
  /\ SizeOf("a") = 2 /\ ValsOf("a") = <<10, 20>> /\ live = {1, 2}

\* a push of 20 that went to the back of a queue and to the top of a stack
C30_WitnessAdded ==
  /\ kind["a"] = "Queue" /\ kind["b"] = "Stack"
  /\ DidOk("push", "b") /\ ValsOf("b") = <<20, 10>>
  /\ ValsOf("a") = <<10, 20>>

\* the insertions that writing c takes: its elements and the " " between
Insertions(c) == IF SizeOf(c) = 0 THEN 0 ELSE 2 * SizeOf(c) - 1

\* os << c, as the caller sees it
Printed(c, os) == print([Mem(0) EXCEPT !.os = os], c)

\* the exception is the runtime_error of a serialization that failed
StreamFault(c, call) ==
  /\ call.exc = "runtime_error"
  /\ Len(call.what) = 2
  /\ call.what[1] = IF kind[c] = "Stack" THEN "Stack serialization failed: "
                                         ELSE "Queue serialization failed: "

\* C31: writing a container to a stream that is not good before the call,
\* or whose destination takes fewer insertions than the elements and their
\* separators need (so that it fails at the first, at a middle or at the
\* last element), throws the runtime_error "... serialization failed: ..."
\* to the caller, leaves the stream with failbit set and leaves the
\* container's nodes, values and size as they were; every other
\* serialization throws nothing.
C31_SerializeFails ==
  /\ [](\A c \in Objs, os \in OutStreams :
          kind[c] # "none" =>
            LET r == Printed(c, os) IN
            IF ~good(os) \/ os.room < Insertions(c)
              THEN /\ StreamFault(c, r)
                   /\ "failbit" \in r.os.state
                   /\ <<r.live, r.data, r.next, r.kind, r.topNode, r.stackSize,
                        r.frontNode, r.rearNode, r.queueSize>> = Heap
              ELSE r.exc = "none")
  /\ [][\A c \in Objs :
          (Did("print", c)' /\ last'.exc # "none") =>
            /\ StreamFault(c, last')
            /\ "failbit" \in last'.ret.state
            /\ UNCHANGED Heap]_vars

\* writing the stack 20, 10 failed at its last element, after "20 "
C31_Witness ==
  /\ kind["a"] = "Stack" /\ Did("print", "a") /\ StreamFault("a", last)
  /\ last.what[2] = "Output stream failed after serialization"
  /\ last.ret.text = <<20, Sp>> /\ "failbit" \in last.ret.state
  /\ Elems("a") = <<20, 10>>

\* writing the queue 10, 20 failed at the " " after its first element
C31_WitnessMiddle ==
  /\ kind["a"] = "Queue" /\ Did("print", "a") /\ StreamFault("a", last)
  /\ last.what[2] = "Output stream failed during serialization"
  /\ last.ret.text = <<10>> /\ Elems("a") = <<10, 20>>

\* C32: for a Stack or Queue of size() = n and every flavour of begin()
\* and of end(): begin() == end() exactly when n = 0; the handle from
\* begin() advanced k times, k <= n, equals end() exactly when k = n; and
\* the loop from begin() to end() ends after visiting exactly n elements.
C32_Traversal ==
  \A c \in Objs :
    kind[c] # "none" =>
      /\ \A f \in Flavours, g \in Flavours :
           /\ handle_eq(begin(Cur, c, f), end(Cur, c, g)) <=> (SizeOf(c) = 0)
           /\ handle_neq(begin(Cur, c, f), end(Cur, c, g)) <=> (SizeOf(c) # 0)
           /\ \A k \in 0..SizeOf(c) :
                handle_eq(advance(Cur, begin(Cur, c, f), k), end(Cur, c, g))
                  <=> (k = SizeOf(c))
      /\ \A f \in Flavours : Len(for_range(Cur, c, f)) = SizeOf(c)
      /\ Did("for", c) => Len(last.ret) = SizeOf(c)

\* the loop over a queue of three elements visited three
C32_Witness ==
  /\ kind["a"] = "Queue" /\ SizeOf("a") = 3
  /\ Did("for", "a") /\ Len(last.ret) = 3
  /\ ~handle_eq(advance(Cur, begin(Cur, "a", "mutable"), 2), end(Cur, "a", "c"))
  /\ handle_eq(advance(Cur, begin(Cur, "a", "mutable"), 3), end(Cur, "a", "c"))

\* the loop over an empty stack visited nothing: begin() == end()
C32_WitnessEmpty ==
  /\ kind["a"] = "Stack" /\ SizeOf("a") = 0
  /\ Did("for", "a") /\ last.ret = <<>>
  /\ handle_eq(begin(Cur, "a", "mutable"), end(Cur, "a", "mutable"))

\* the nodes a cursor on node a walks over before it reaches the end
WalkFrom(a) == Chain(Cur, a, MaxNodes + 1)

\* C33: a push that returns leaves every cursor object as it is, and every
\* cursor that stood on a node stands on the same node, which is live and
\* holds the same value; the walk from a cursor of a Stack goes over the
\* same nodes as before, and the walk from a cursor of a Queue goes over the
\* same nodes followed by the pushed one, so that a cursor on the former
\* last element reaches the new element next and the end only after it.
C33_PushKeepsCursors ==
  [][\A c \in Objs :
       DidOk("push", c)' =>
         /\ cursors' = cursors /\ handles' = handles
         /\ \A h \in Its :
              (Holds(h) /\ PosOf(h) # Null /\ CursorOn(h, c)) =>
                /\ PosOf(h) \in live /\ PosOf(h) \in live'
                /\ data'[PosOf(h)] = data[PosOf(h)]
                /\ IF kind[c] = "Stack"
                     THEN WalkFrom(PosOf(h))' = WalkFrom(PosOf(h))
                     ELSE /\ WalkFrom(PosOf(h))' =
                               Append(WalkFrom(PosOf(h)), rearNode'[c])
                          /\ PosOf(h) = rearNode[c] =>
                               /\ next'[PosOf(h)] = rearNode'[c]
                               /\ rearNode'[c] \notin live
                               /\ next'[rearNode'[c]] = Null]_vars

\* a push on the queue a while an iterator stood on its last element: the
\* iterator is one step before the new last element
C33_Witness ==
  /\ kind["a"] = "Queue" /\ DidOk("push", "a") /\ SizeOf("a") = 3
  /\ Holds("it") /\ PosOf("it") # Null /\ PosOf("it") # rearNode["a"]
  /\ next[PosOf("it")] = rearNode["a"]

\* a push on the stack a while a const_iterator stood on its top: the
\* const_iterator is on the node under the new top
C33_WitnessStack ==
  /\ kind["a"] = "Stack" /\ DidOk("push", "a") /\ SizeOf("a") = 2
  /\ Holds("jt") /\ handles["jt"].type = "const_iterator"
  /\ PosOf("jt") # Null /\ next[topNode["a"]] = PosOf("jt")

\* C34: an assignment through the fwd_container interface that throws
\* std::bad_cast, which it does for every source of the other kind, leaves
\* the target with the nodes, the element sequence and the size it had,
\* all of its nodes still live, and leaves the source alone too.
C34_MismatchKeepsTarget ==
  /\ [](\A c \in Objs, o \in Objs :
          (kind[c] # "none" /\ kind[o] # "none" /\ kind[c] # kind[o]) =>
            LET r == assign(Mem(MaxNodes), c, o) IN
            /\ r.exc = "bad_cast"
            /\ <<r.live, r.data, r.next, r.kind, r.topNode, r.stackSize,
                 r.frontNode, r.rearNode, r.queueSize>> = Heap)
  /\ [][\A c \in Objs, o \in Objs :
          (Did("assign", c)' /\ last'.src = o /\ last'.exc = "bad_cast") =>
            /\ ChainOf(c)' = ChainOf(c)
            /\ ValsOf(c)' = ValsOf(c)
            /\ SizeOf(c)' = SizeOf(c)
            /\ NodesOf(c) \subseteq live'
            /\ kind'[c] = kind[c]
            /\ ChainOf(o)' = ChainOf(o)
            /\ ValsOf(o)' = ValsOf(o)]_vars

\* the stack b, holding 30, was assigned to the queue a, which holds 10, 20
C34_Witness ==
  /\ kind["a"] = "Queue" /\ kind["b"] = "Stack"
  /\ Did("assign", "a") /\ last.src = "b" /\ last.exc = "bad_cast"
  /\ ValsOf("a") = <<10, 20>> /\ SizeOf("a") = 2 /\ ValsOf("b") = <<30>>
  /\ Cardinality(live) = 3

\* the call just made assigned c to itself
SelfAssigned(c) ==
  /\ last.op \in {"copy_assign", "move_assign", "assign"}
  /\ last.obj = c /\ last.src = c

\* C35: a copy assignment, a move assignment or an assignment through the
\* fwd_container interface of a Stack or Queue to itself throws nothing,
\* whether or not an allocation could succeed, and leaves the object's
\* nodes, values, element sequence and size as they were.
C35_SelfAssign ==
  /\ []IteratesChain
  /\ [][\A c \in Objs :
          SelfAssigned(c)' =>
            /\ last'.exc = "none"
            /\ UNCHANGED Heap
            /\ log' = log
            /\ ChainOf(c)' = ChainOf(c)
            /\ ValsOf(c)' = ValsOf(c)
            /\ SizeOf(c)' = SizeOf(c)]_vars

\* the stack 20, 10 was move-assigned to itself and holds 20, 10
C35_Witness ==
  /\ kind["a"] = "Stack" /\ SelfAssigned("a") /\ last.op = "move_assign"
  /\ last.exc = "none"
  /\ ValsOf("a") = <<20, 10>> /\ SizeOf("a") = 2

\* the queue 10, 20 was assigned to itself through the interface
C35_WitnessGeneric ==
  /\ kind["a"] = "Queue" /\ SelfAssigned("a") /\ last.op = "assign"
  /\ last.exc = "none"
  /\ ValsOf("a") = <<10, 20>> /\ SizeOf("a") = 2

\* the queue 10, 20 was copy-assigned to itself
C35_WitnessCopy ==
  /\ kind["a"] = "Queue" /\ SelfAssigned("a") /\ last.op = "copy_assign"
  /\ last.exc = "none"
  /\ ValsOf("a") = <<10, 20>> /\ SizeOf("a") = 2

\* the handle object h is constructed and holds no cursor
IsEmpty(h) == handles[h].type # "none" /\ handles[h].ptr = Null

\* C36: two handle objects without a cursor (default-constructed, moved
\* from or emptied), iterator or const_iterator, compare equal in both
\* operand orders; a handle object without a cursor and one with a cursor,
\* of a Stack or a Queue, on a node or at the end, compare not-equal in both
\* orders; != is the negation; so are the results of the comparisons the
\* program makes.
C36_EmptyHandles ==
  \A h \in Its, g \in Its :
    (IsEmpty(h) /\ handles[g].type # "none") =>
      /\ handle_eq(HandleAt(Cur, h), HandleAt(Cur, g)) = IsEmpty(g)
      /\ handle_eq(HandleAt(Cur, g), HandleAt(Cur, h)) = IsEmpty(g)
      /\ handle_neq(HandleAt(Cur, h), HandleAt(Cur, g)) = Holds(g)
      /\ handle_neq(HandleAt(Cur, g), HandleAt(Cur, h)) = Holds(g)
      /\ (Did("it_compare", h) /\ last.src = g) =>
            /\ last.exc = "none"
            /\ last.ret.eq = <<IsEmpty(g), IsEmpty(g)>>
            /\ last.ret.neq = <<Holds(g), Holds(g)>>
      /\ (Did("it_compare", g) /\ last.src = h) =>
            /\ last.exc = "none"
            /\ last.ret.eq = <<IsEmpty(g), IsEmpty(g)>>
            /\ last.ret.neq = <<Holds(g), Holds(g)>>

\* an iterator without a cursor was compared with a const_iterator at the
\* end of the queue a: not equal
C36_Witness ==
  /\ kind["a"] = "Queue"
  /\ IsEmpty("it") /\ handles["it"].type = "iterator"
  /\ Holds("jt") /\ handles["jt"].type = "const_iterator"
  /\ CursorOf("jt").cls = "queue_const_iterator" /\ PosOf("jt") = Null
  /\ Did("it_compare", "it") /\ last.src = "jt"
  /\ last.ret.eq = <<FALSE, FALSE>> /\ last.ret.neq = <<TRUE, TRUE>>

\* an iterator and a const_iterator, both without a cursor, were
\* compared: equal
C36_WitnessBothEmpty ==
  /\ IsEmpty("it") /\ handles["it"].type = "iterator"
  /\ IsEmpty("jt") /\ handles["jt"].type = "const_iterator"
  /\ Did("it_compare", "jt") /\ last.src = "it"
  /\ last.ret.eq = <<TRUE, TRUE>> /\ last.ret.neq = <<FALSE, FALSE>>

\* the read ended in the handler that does *this = std::move(backup): it
\* failed after the backup was taken, at a push, at the stream or at a token
RolledBack(call) ==
  /\ call.exc = "runtime_error"
  /\ Len(call.what) >= 2
  /\ call.what[2] \in {"Memory allocation failed during input: ",
                        "Push operation failed during input: ",
                        "Input stream failed during data reading",
                        "Failed to parse input data"}

\* a stream holding the tokens buf
StreamOf(buf) == [state |-> {}, buf |-> buf, tail |-> ""]

\* C37: a read that meets an unparsable token where the heap has room for
\* the backup rolls back; a read that fails after its backup was taken, and
\* so rolls back,
\* leaves the container on nodes that were not allocated before, one for
\* each old element and with the old values in the old order, and none of
\* the nodes it had before the read is live afterwards: a cursor obtained
\* before the read, from begin() of any flavour or advanced to any other
\* element of the chain, stands on a deleted node. A read that returns leaves every node the container had in its
\* chain and live.
C37_RestoresValues ==
  /\ [](\A c \in Objs, buf \in {<<BadToken>>, <<10, BadToken>>} :
          (kind[c] # "none" /\ Cardinality(Addrs \ live) >= SizeOf(c)) =>
            LET r == read([Mem(MaxNodes) EXCEPT !.is = StreamOf(buf)], c) IN
            RolledBack(r) /\ NodesOf(c) \cap r.live = {})
  /\ [][\A c \in Objs :
          Did("read", c)' =>
            /\ RolledBack(last') =>
                 /\ NodesOf(c) \cap live' = {}
                 /\ NodesOf(c)' \cap live = {}
                 /\ NodesOf(c)' \subseteq live'
                 /\ Len(ChainOf(c)') = Len(ChainOf(c))
                 /\ ValsOf(c)' = ValsOf(c)
                 /\ \A f \in Flavours :
                      SizeOf(c) > 0 =>
                        begin(Cur, c, f).ptr.current \notin live'
            /\ last'.exc = "none" =>
                 /\ NodesOf(c) \subseteq NodesOf(c)'
                 /\ NodesOf(c) \subseteq live'
                 /\ \A a \in NodesOf(c) : data'[a] = data[a]]_vars

\* "10 ?" was read into the queue 10, 10 on nodes 1 and 2: it holds 10, 10
\* again, on nodes 3 and 4
C37_Witness ==
  /\ kind["a"] = "Queue" /\ Did("read", "a") /\ RolledBack(last)
  /\ last.ret.input.buf = <<10, BadToken>>
  /\ ValsOf("a") = <<10, 10>> /\ ChainOf("a") = <<3, 4>> /\ live = {3, 4}

\* "10" was read into the stack 10 on node 1, which is still its bottom
C37_WitnessKept ==
  /\ kind["a"] = "Stack" /\ DidOk("read", "a")
  /\ last.ret.input.buf = <<10>>
  /\ Len(ChainOf("a")) = 2 /\ ChainOf("a")[2] = 1 /\ Cardinality(live) = 2

\* the input holds a token that does not parse
HasBadToken(is) == \E i \in 1..Len(is.buf) : is.buf[i] = BadToken

\* the read failed at a token: "Failed to parse input data"
ParseFailure(call) ==
  /\ call.exc = "runtime_error"
  /\ Len(call.what) = 2
  /\ call.what[2] = "Failed to parse input data"

\* C38: a read whose last extraction sets failbit together with eofbit (the
\* input is used up: nothing, white space or a lone sign follows the last
\* value) ends normally: it throws nothing, leaves the stream with no
\* state bit set and keeps every value it pushed. Only an allocation that
\* fails makes a read of parsable input from a good stream throw. A read
\* throws "Failed to parse input data" only for an input with a token
\* that does not parse, where failbit is set before the end of input, and
\* then the container has its old values.
C38_FailAtEof ==
  /\ [](\A c \in Objs, t \in {"", "-"} :
          (kind[c] # "none" /\ Cardinality(Addrs \ live) >= SizeOf(c)) =>
            LET r == read([Mem(MaxNodes) EXCEPT
                             !.is = [state |-> {}, buf |-> <<>>, tail |-> t]], c)
            IN r.exc = "none" /\ r.is.state = {})
  /\ [][\A c \in Objs :
          Did("read", c)' =>
            LET is == last'.ret.input IN
            /\ ParseFailure(last') =>
                 /\ HasBadToken(is)
                 /\ ValsOf(c)' = ValsOf(c) /\ SizeOf(c)' = SizeOf(c)
            /\ (is.state = {} /\ ~HasBadToken(is)) =>
                 IF last'.exc = "none"
                   THEN /\ last'.ret.state = {}
                        /\ SizeOf(c)' = SizeOf(c) + Len(is.buf)
                        /\ NodesOf(c) \subseteq NodesOf(c)'
                   ELSE Exhaustion(last')
            /\ (is.state = {} /\ HasBadToken(is)) => last'.exc # "none"]_vars

\* "10 20 30-" was read into an empty queue: the extraction after 30 failed
\* at the end of input, and the queue holds 10, 20, 30
C38_Witness ==
  /\ kind["a"] = "Queue" /\ DidOk("read", "a")
  /\ last.ret.input = [state |-> {}, buf |-> <<10, 20, 30>>, tail |-> "-"]
  /\ last.ret.state = {}
  /\ ValsOf("a") = <<10, 20, 30>>

\* "10 ? 20" was read into the stack 10: parse failure before the end of
\* input, and the stack holds 10 alone
C38_WitnessParse ==
  /\ kind["a"] = "Stack" /\ Did("read", "a") /\ ParseFailure(last)
  /\ last.ret.input.buf = <<10, BadToken, 20>>
  /\ ValsOf("a") = <<10>>

\* the machine after the first n rounds of clear()'s loop on c
ClearRounds(c, n) ==
  IF kind[c] = "Stack" THEN Stack_clear_loop(Mem(0), c, n)
  ELSE Queue_clear_loop(Mem(0), c, n)

\* c is empty in machine r: size() 0, is_empty(), no first node, and for a
\* Queue no last node
EmptyIn(r, c) ==
  /\ is_empty(r, c)
  /\ size(r, c) = 0
  /\ IF r.kind[c] = "Stack" THEN r.topNode[c] = Null
     ELSE r.frontNode[c] = Null /\ r.rearNode[c] = Null

\* C39: clear() on a container of size n ends after exactly n pops: after
\* fewer rounds of its loop the container is not empty, after n it is, and
\* each round deletes one node that was live, so that the n nodes of the
\* chain are each deleted once and no other node is. After clear() the
\* container is empty: size 0, is_empty, no first node and for a Queue no
\* last node. The destructor deletes the same nodes, so none of the
\* container's nodes is live after it.
C39_ClearFreesAll ==
  /\ [](\A c \in Objs :
          kind[c] # "none" =>
            /\ \A n \in 0..SizeOf(c) :
                 LET r == ClearRounds(c, n) IN
                 /\ r.exc = "none"
                 /\ Cardinality(r.live) = Cardinality(live) - n
                 /\ live \ r.live \subseteq NodesOf(c)
                 /\ n < SizeOf(c) => ~EmptyIn(r, c)
                 /\ n = SizeOf(c) => r = clear(Mem(0), c)
            /\ LET r == clear(Mem(0), c) IN
                 /\ EmptyIn(r, c)
                 /\ r.live = live \ NodesOf(c)
                 /\ r.exc = "none")
  /\ [][\A c \in Objs :
          /\ Did("clear", c)' =>
               /\ last'.exc = "none"
               /\ live' = live \ NodesOf(c)
               /\ NodesOf(c)' = {} /\ SizeOf(c)' = 0
               /\ kind'[c] = kind[c]
               /\ topNode'[c] = Null /\ frontNode'[c] = Null /\ rearNode'[c] = Null
          /\ Did("dtor", c)' =>
               /\ last'.exc = "none"
               /\ live' = live \ NodesOf(c)
               /\ kind'[c] = "none"]_vars

\* a queue was cleared whose first node came before the node of the stack
\* b: the stack's node 2 is the one live node left
C39_Witness ==
  /\ kind["a"] = "Queue" /\ kind["b"] = "Stack"
  /\ DidOk("clear", "a")
  /\ SizeOf("a") = 0 /\ frontNode["a"] = Null /\ rearNode["a"] = Null
  /\ ValsOf("b") = <<10>>
  /\ live = {2}

\* a container whose nodes lay between those of the stack b was destroyed:
\* the stack's nodes 2 and 4 are the live ones
C39_WitnessDtor ==
  /\ kind["a"] = "none" /\ Did("dtor", "a")
  /\ kind["b"] = "Stack" /\ ChainOf("b") = <<4, 2>>
  /\ live = {2, 4}
====
